---- MODULE Spec2Model ----
(***************************************************************************)
(* Holotree file functions (htfs/functions.go): the retry primitives, the  *)
(* lift and drop work units, directory reconciliation, lift scheduling and *)
(* the library index load, as state machines over a small file system.     *)
(***************************************************************************)
EXTENDS Integers, Sequences, FiniteSets, TLC

VARIABLES
    disk,   \* the file system: a function from the existing paths to entries
    units,  \* the pool's work units, in the order anywork.Backlog received them
    ids,    \* the next value of common.Identities
    main,   \* the calling thread: its position and locals
    pool,   \* the pool's failure record (what anywork.Sync reports)
    hist    \* history: renames onto watched paths, content seen before a unit

vars == <<disk, units, ids, main, pool, hist>>

(***************************************************************************)
(* Paths.  A path is its components plus the two suffixes the code adds:   *)
(* ".part<id>" (LiftFile, DropFile) and ".<pid>_<hex>" (TryRename).        *)
(***************************************************************************)
P(base) == [base |-> base, part |-> 0, mid |-> FALSE]

NoPath == P(<<>>)

Join(path, name) == [path EXCEPT !.base = Append(@, name)]

Parent(path) == P(SubSeq(path.base, 1, Len(path.base) - 1))

PartName(sinkname, id) == [sinkname EXCEPT !.part = id]

Intermediate(source) == [source EXCEPT !.mid = TRUE]

IsPrefix(s, t) == Len(s) <= Len(t) /\ SubSeq(t, 1, Len(s)) = s

Under(p, q) == Len(q.base) > Len(p.base) /\ IsPrefix(p.base, q.base)

(***************************************************************************)
(* The file system.  An entry is a file (its bytes, mode, mtime) or a      *)
(* directory.  Every call may fail for a reason of the operating system's  *)
(* (a sharing violation, a full disk); it can succeed only where the       *)
(* arguments allow it.                                                     *)
(***************************************************************************)
motherTime == "motherTime"

Now == "now"

CreateMode == "0666"

FileEntry(data, mode, mtime) ==
    [kind |-> "file", data |-> data, mode |-> mode, mtime |-> mtime]

DirEntry(mtime) == [kind |-> "dir", data |-> <<>>, mode |-> "0750", mtime |-> mtime]

Exists(d, p) == p \in DOMAIN d

IsFile(d, p) == Exists(d, p) /\ d[p].kind = "file"

IsDir(d, p) == Exists(d, p) /\ d[p].kind = "dir"

Put(d, p, e) == [q \in (DOMAIN d) \cup {p} |-> IF q = p THEN e ELSE d[q]]

Del(d, ps) == [q \in (DOMAIN d) \ ps |-> d[q]]

Touch(d, p) == IF IsDir(d, p) THEN [d EXCEPT ![p].mtime = Now] ELSE d

Tree(d, p) == {q \in DOMAIN d : q = p \/ Under(p, q)}

Failed(d) == [ok |-> FALSE, disk |-> d]

Done(d) == [ok |-> TRUE, disk |-> d]

\* os.Remove: a file or an empty directory.
osRemove(d, p) ==
    {Failed(d)} \cup
    IF Exists(d, p) /\ Tree(d, p) = {p}
    THEN {Done(Touch(Del(d, {p}), Parent(p)))}
    ELSE {}

\* os.RemoveAll: the path and everything under it; nil when there is nothing.
osRemoveAll(d, p) ==
    {Failed(d)} \cup
    {Done(IF Exists(d, p) THEN Touch(Del(d, Tree(d, p)), Parent(p)) ELSE d)}

\* os.Rename: replaces a file at the new path; never a file over a directory.
osRename(d, from, to) ==
    {Failed(d)} \cup
    IF /\ Exists(d, from)
       /\ from # to
       /\ (Exists(d, to) => d[to].kind = "file" /\ d[from].kind = "file")
    THEN {Done(Touch(Put(Del(d, {from}), to, d[from]), Parent(to)))}
    ELSE {}

(***************************************************************************)
(* The retry primitives: TryRemove, TryRemoveAll, TryRename.               *)
(* A call's record holds its locals, and a log of its sleeps and calls.    *)
(***************************************************************************)
MaxTries == 5

\* A sleep that does not grow with the round.
SleepMsFlat(delay) == 100

SleepMs(delay) == delay * 100

Nil == [nil |-> TRUE, origin |-> "", reason |-> 0]

RetryError(origin, reason) == [nil |-> FALSE, origin |-> origin, reason |-> reason]

Slept(ms) == [ev |-> "sleep", ms |-> ms, from |-> NoPath, to |-> NoPath, ok |-> TRUE]

Called(at, from, to, ok) == [ev |-> "call", ms |-> at, from |-> from, to |-> to, ok |-> ok]

TryBegin(fn, source, target) ==
    [fn |-> fn, pc |-> "loop", phase |-> 1, delay |-> 0,
     source |-> source, target |-> target, origin |-> "",
     elapsed |-> 0, log |-> <<>>, ret |-> Nil]

osCall(fn, d, source, target) ==
    CASE fn = "Remove" -> osRemove(d, target)
      [] fn = "RemoveAll" -> osRemoveAll(d, target)
      [] OTHER -> osRename(d, source, target)

CallNumber(log) == Cardinality({i \in 1..Len(log) : log[i].ev = "call"})

\* What follows a failed attempt: the next round, the fallback, or the error.
AfterFailure(r, reason) ==
    IF r.delay + 1 < MaxTries
    THEN [r EXCEPT !.delay = @ + 1]
    ELSE IF r.fn = "Rename" /\ r.phase = 1
         THEN [r EXCEPT !.pc = "fallback", !.delay = @ + 1]
         ELSE [r EXCEPT !.pc = "ret", !.delay = @ + 1,
                        !.ret = RetryError(r.origin, reason)]

\* One round of a retry loop: sleep, call, return nil at once on success.
TryLoop(r, d) ==
    LET ms == SleepMs(r.delay)
        at == r.elapsed + ms
        from == IF r.fn = "Rename" THEN r.source ELSE NoPath
    IN  { [rt |-> LET logged == [r EXCEPT !.elapsed = at,
                                          !.log = @ \o <<Slept(ms), Called(at, from, r.target, o.ok)>>]
                  IN  IF o.ok
                      THEN [logged EXCEPT !.pc = "ret", !.ret = Nil]
                      ELSE AfterFailure(logged, CallNumber(logged.log)),
           disk |-> o.disk] : o \in osCall(r.fn, d, r.source, r.target) }

\* A fallback that forgets to continue from the intermediate path.
TryFallbackKeepsSource(r, d) ==
    { [rt |-> [r EXCEPT !.pc = "loop", !.phase = 2, !.delay = 0,
                        !.origin = IF o.ok THEN "target" ELSE "source",
                        !.log = @ \o <<Called(r.elapsed, r.source, Intermediate(r.source), o.ok)>>],
       disk |-> o.disk] : o \in osRename(d, r.source, Intermediate(r.source)) }

\* A fallback that names the target as origin whatever its rename came to.
TryFallbackOriginTarget(r, d) ==
    { [rt |-> [r EXCEPT !.pc = "loop", !.phase = 2, !.delay = 0,
                        !.source = IF o.ok THEN Intermediate(r.source) ELSE r.source,
                        !.origin = "target",
                        !.log = @ \o <<Called(r.elapsed, r.source, Intermediate(r.source), o.ok)>>],
       disk |-> o.disk] : o \in osRename(d, r.source, Intermediate(r.source)) }

\* TryRename between its loops: the rename to the intermediate path.
TryFallback(r, d) ==
    LET intermediate == Intermediate(r.source)
    IN  { [rt |-> [r EXCEPT !.pc = "loop", !.phase = 2, !.delay = 0,
                            !.source = IF o.ok THEN intermediate ELSE r.source,
                            !.origin = IF o.ok THEN "target" ELSE "source",
                            !.log = @ \o <<Called(r.elapsed, r.source, intermediate, o.ok)>>],
           disk |-> o.disk] : o \in osRename(d, r.source, intermediate) }

TryStep(r, d) ==
    CASE r.pc = "loop" -> TryLoop(r, d)
      [] r.pc = "fallback" -> TryFallback(r, d)
      [] OTHER -> {}

(***************************************************************************)
(* File contents.  A byte is a one-character string; gzip wraps a body in  *)
(* a header and a trailer; a write past the end fills the gap with zeros.  *)
(***************************************************************************)
GzHead == "<gz"

GzTail == "gz>"

Zero == "0"

Gzip(body) == <<GzHead>> \o body \o <<GzTail>>

IsGzip(data) == Len(data) >= 2 /\ data[1] = GzHead /\ data[Len(data)] = GzTail

Gunzip(data) == SubSeq(data, 2, Len(data) - 1)

Max(a, b) == IF a >= b THEN a ELSE b

\* A write that lands one byte late.
WriteAtShifted(data, position, bytes) ==
    [i \in 1..Max(Len(data), position + 1 + Len(bytes)) |->
        IF i > position + 1 /\ i <= position + 1 + Len(bytes) THEN bytes[i - position - 1]
        ELSE IF i <= Len(data) THEN data[i]
        ELSE Zero]

\* (*os.File).Seek(position, 0) then Write(bytes) on a file holding data.
WriteAt(data, position, bytes) ==
    [i \in 1..Max(Len(data), position + Len(bytes)) |->
        IF i > position /\ i <= position + Len(bytes) THEN bytes[i - position]
        ELSE IF i <= Len(data) THEN data[i]
        ELSE Zero]

\* A write through an open handle reaches the file while its path names it.
Written(d, p, data) == IF IsFile(d, p) THEN [d EXCEPT ![p].data = data] ELSE d

osCreate(d, p) ==
    {Failed(d)} \cup
    IF IsDir(d, p) THEN {}
    ELSE {Done(Touch(Put(d, p, FileEntry(<<>>, CreateMode, Now)), Parent(p)))}

osAppend(d, p, bytes) ==
    {Failed(d)} \cup
    {Done(IF IsFile(d, p) THEN Written(d, p, d[p].data \o bytes) ELSE d)}

osWriteAt(d, p, position, bytes) ==
    {Failed(d)} \cup
    {Done(IF IsFile(d, p) THEN Written(d, p, WriteAt(d[p].data, position, bytes)) ELSE d)}

Prefixes(p) == {P(SubSeq(p.base, 1, n)) : n \in 1..Len(p.base)}

\* os.MkdirAll: the directory and every missing parent.
osMkdirAll(d, p) ==
    {Failed(d)} \cup
    IF \E q \in Prefixes(p) : IsFile(d, q) THEN {}
    ELSE LET missing == {q \in Prefixes(p) : ~Exists(d, q)}
             made == [q \in (DOMAIN d) \cup missing |-> IF q \in missing THEN DirEntry(Now) ELSE d[q]]
         IN  {Done([q \in DOMAIN made |->
                      IF IsDir(d, q) /\ \E m \in missing : Parent(m) = q
                      THEN [made[q] EXCEPT !.mtime = Now] ELSE made[q]])}

osChmod(d, p, mode) ==
    {Failed(d)} \cup
    IF Exists(d, p) THEN {Done([d EXCEPT ![p].mode = mode])} ELSE {}

osChtimes(d, p, mtime) ==
    {Failed(d)} \cup
    IF Exists(d, p) THEN {Done([d EXCEPT ![p].mtime = mtime])} ELSE {}

(***************************************************************************)
(* The library: Location, ExactLocation and Open.                          *)
(***************************************************************************)
Location(digest) == P(<<"hololib", "shard">>)

ExactLocation(digest) == Join(Location(digest), digest)

\* Open yields the decompressed body of the object stored under the digest.
LibraryOpen(d, digest) ==
    {[ok |-> FALSE, body |-> <<>>]} \cup
    IF IsFile(d, ExactLocation(digest)) /\ IsGzip(d[ExactLocation(digest)].data)
    THEN {[ok |-> TRUE, body |-> Gunzip(d[ExactLocation(digest)].data)]}
    ELSE {}

(***************************************************************************)
(* Work units.  A unit is a record of its arguments and locals; a step of  *)
(* a unit yields its next record, the file system, the identity source and *)
(* the units it handed to anywork.Backlog.  A panic runs the deferred      *)
(* calls registered so far and ends the unit as failed.                    *)
(***************************************************************************)
NoRetry == TryBegin("", NoPath, NoPath)

NoDetails == [Name |-> "", Digest |-> "", Rewrite |-> <<>>, Mode |-> CreateMode, Size |-> 0]

NoDir == [Name |-> "", Files |-> <<>>, Dirs |-> <<>>]

\* A nil *Root.
NoRoot == [nil |-> TRUE, Path |-> NoPath, Tree |-> NoDir]

BlankUnit ==
    [kind |-> "", pc |-> "open", sourcename |-> NoPath, sinkname |-> NoPath,
     digest |-> "", details |-> NoDetails, rewrite |-> <<>>, partname |-> NoPath,
     body |-> <<>>, n |-> 0, rt |-> NoRetry, panicked |-> FALSE, cleanup |-> "",
     path |-> NoPath, it |-> NoDir, current |-> <<>>, content |-> {}, files |-> {},
     root |-> NoRoot, known |-> {}, deferred |-> <<>>, log |-> <<>>]

Finished(u) == u.pc \in {"done", "failed"}

\* A unit that writes the target path in place.
InPlace(u) == u.sinkname

\* The file a unit creates and writes: os.Create(partname).
Staging(u) == u.partname

Out(u, d, i) == [u |-> u, disk |-> d, ids |-> i, spawn |-> <<>>, dirty |-> 0]

\* A step that hands units to anywork.Backlog and counts stats.Dirty(true).
Scheduled(u, d, i, spawn) == [u |-> u, disk |-> d, ids |-> i, spawn |-> spawn, dirty |-> Len(spawn)]

\* panic before any defer is registered.
Panic(u) == [u EXCEPT !.pc = "failed", !.panicked = TRUE, !.rt = NoRetry]

\* anywork.OnErrPanicCloseAll(err, ...) with err # nil, once `defer
\* os.Remove(partname)` is registered: the deferred calls run next.
PanicDeferred(u) == [u EXCEPT !.pc = "defer", !.panicked = TRUE, !.rt = NoRetry]

At(u, pc) == [u EXCEPT !.pc = pc]

\* `defer os.Remove(partname)`: one call, its error dropped.
Deferred(u, d, i) ==
    { Out([u EXCEPT !.pc = IF u.panicked THEN "failed" ELSE "done",
                    !.cleanup = IF o.ok THEN "removed"
                                ELSE IF Exists(d, u.partname) THEN "refused"
                                ELSE "nothing"],
          o.disk, i) : o \in osRemove(d, u.partname) }

\* A unit inside TryRename: the next round, or the return to the caller.
Renaming(u, d, i, next) ==
    IF u.rt.pc = "ret"
    THEN {Out(IF u.rt.ret.nil THEN [u EXCEPT !.pc = next, !.rt = NoRetry]
                              ELSE PanicDeferred(u), d, i)}
    ELSE {Out([u EXCEPT !.rt = o.rt], o.disk, i) : o \in TryStep(u.rt, d)}

LiftFile(sourcename, sinkname) ==
    [BlankUnit EXCEPT !.kind = "LiftFile", !.sourcename = sourcename, !.sinkname = sinkname]

LiftStep(u, d, i) ==
    CASE u.pc = "open" ->
            {Out(Panic(u), d, i)} \cup
            IF IsFile(d, u.sourcename)
            THEN {Out([u EXCEPT !.pc = "create", !.body = d[u.sourcename].data,
                                !.partname = PartName(u.sinkname, i)], d, i + 1)}
            ELSE {}
      [] u.pc = "create" ->
            {Out(IF o.ok THEN At(u, "copy") ELSE PanicDeferred(u), o.disk, i) :
                o \in osCreate(d, Staging(u))}
      [] u.pc = "copy" ->
            IF u.n < Len(u.body)
            THEN {Out(IF o.ok THEN [u EXCEPT !.n = @ + 1] ELSE PanicDeferred(u), o.disk, i) :
                    o \in osAppend(d, Staging(u),
                                   (IF u.n = 0 THEN <<GzHead>> ELSE <<>>) \o <<u.body[u.n + 1]>>)}
            ELSE {Out(IF o.ok THEN At(u, "close") ELSE PanicDeferred(u), o.disk, i) :
                    o \in osAppend(d, Staging(u),
                                   (IF u.n = 0 THEN <<GzHead>> ELSE <<>>) \o <<GzTail>>)}
      [] u.pc = "close" ->
            {Out(PanicDeferred(u), d, i),
             Out([u EXCEPT !.pc = "rename",
                           !.rt = TryBegin("Rename", u.partname, u.sinkname)], d, i)}
      [] u.pc = "rename" -> Renaming(u, d, i, "defer")
      [] u.pc = "defer" -> Deferred(u, d, i)
      [] OTHER -> {}

DropFile(digest, sinkname, details, rewrite) ==
    [BlankUnit EXCEPT !.kind = "DropFile", !.digest = digest, !.sinkname = sinkname,
                      !.details = details, !.rewrite = rewrite]

DropStep(u, d, i) ==
    CASE u.pc = "open" ->
            { Out(IF o.ok THEN [u EXCEPT !.pc = "create", !.body = o.body,
                                         !.partname = PartName(u.sinkname, i)]
                          ELSE Panic(u),
                  d, IF o.ok THEN i + 1 ELSE i) : o \in LibraryOpen(d, u.digest) }
      [] u.pc = "create" ->
            {Out(IF o.ok THEN At(u, "copy") ELSE PanicDeferred(u), o.disk, i) :
                o \in osCreate(d, Staging(u))}
      [] u.pc = "copy" ->
            IF u.n < Len(u.body)
            THEN {Out(IF o.ok THEN [u EXCEPT !.n = @ + 1] ELSE PanicDeferred(u), o.disk, i) :
                    o \in osAppend(d, Staging(u), <<u.body[u.n + 1]>>)}
            ELSE {Out([u EXCEPT !.pc = "patch", !.n = 1], d, i)}
      [] u.pc = "patch" ->
            IF u.n <= Len(u.details.Rewrite)
            THEN IF u.details.Rewrite[u.n] < 0
                 THEN {Out(PanicDeferred(u), d, i)}
                 ELSE {Out(IF o.ok THEN [u EXCEPT !.n = @ + 1] ELSE PanicDeferred(u), o.disk, i) :
                         o \in osWriteAt(d, Staging(u), u.details.Rewrite[u.n], u.rewrite)}
            ELSE {Out(PanicDeferred(u), d, i),
                  Out([u EXCEPT !.pc = "rename",
                                !.rt = TryBegin("Rename", u.partname, u.sinkname)], d, i)}
      [] u.pc = "rename" -> Renaming(u, d, i, "chmod")
      [] u.pc = "chmod" ->
            {Out(IF o.ok THEN At(u, "chtimes") ELSE PanicDeferred(u), o.disk, i) :
                o \in osChmod(d, u.sinkname, u.details.Mode)}
      [] u.pc = "chtimes" ->
            {Out(IF o.ok THEN At(u, "defer") ELSE PanicDeferred(u), o.disk, i) :
                o \in osChtimes(d, u.sinkname, motherTime)}
      [] u.pc = "defer" -> Deferred(u, d, i)
      [] OTHER -> {}

(***************************************************************************)
(* RemoveFile, RemoveDirectory and RestoreDirectory.                       *)
(***************************************************************************)
RemoveFile(filename) ==
    [BlankUnit EXCEPT !.kind = "RemoveFile", !.sinkname = filename,
                      !.rt = TryBegin("Remove", NoPath, filename)]

RemoveDirectory(dirname) ==
    [BlankUnit EXCEPT !.kind = "RemoveDirectory", !.sinkname = dirname,
                      !.rt = TryBegin("RemoveAll", NoPath, dirname)]

\* anywork.OnErrPanicCloseAll(TryRemove(...)) and (TryRemoveAll(...)).
RemoveStep(u, d, i) ==
    IF Finished(u) THEN {}
    ELSE IF u.rt.pc = "ret"
    THEN {Out(IF u.rt.ret.nil THEN [u EXCEPT !.pc = "done", !.rt = NoRetry] ELSE Panic(u), d, i)}
    ELSE {Out([u EXCEPT !.rt = o.rt], o.disk, i) : o \in TryStep(u.rt, d)}

\* The order os.ReadDir lists names in.
SortedNames == <<"a", "b", "c", "s", "x">>

InOrder(names) == SelectSeq(SortedNames, LAMBDA n : n \in names)

Leaf(p) == p.base[Len(p.base)]

\* Whether a listed entry's name is one of the names of a Dir's map.
Named(p, names) == p.part = 0 /\ ~p.mid /\ Leaf(p) \in names

Children(d, path) ==
    {q \in DOMAIN d : Len(q.base) = Len(path.base) + 1 /\ IsPrefix(path.base, q.base)}

ReadDir(d, path) == {[path |-> q, dir |-> IsDir(d, q)] : q \in Children(d, path)}

Key(p) ==
    100 * (CHOOSE n \in 1..Len(SortedNames) : SortedNames[n] = Leaf(p))
        + 2 * p.part + (IF p.mid THEN 1 ELSE 0)

First(content) == CHOOSE e \in content : \A f \in content : Key(e.path) <= Key(f.path)

\* File.Match: the stat fingerprint (size, mode, mtime) against the File.
Match(found, info) ==
    /\ info.kind = "file"
    /\ found.Size = Len(info.data)
    /\ found.Mode = info.mode
    /\ info.mtime = motherTime

\* A check that takes every listed file for golden.
GoldenAlways(current, directpath, found) == TRUE

\* golden: current has no entry for the path, or has the File's digest.
Golden(current, directpath, found) ==
    directpath \notin DOMAIN current \/ found.Digest = current[directpath]

RestoreDirectory(path, it, current, rewrite) ==
    [BlankUnit EXCEPT !.kind = "RestoreDirectory", !.path = path, !.it = it,
                      !.current = current, !.rewrite = rewrite]

RestoreStep(u, d, i) ==
    CASE u.pc = "open" ->
            {Out(Panic(u), d, i)} \cup
            IF IsDir(d, u.path)
            THEN {Out([u EXCEPT !.pc = "entries", !.content = ReadDir(d, u.path)], d, i)}
            ELSE {}
      [] u.pc = "entries" /\ u.content = {} -> {Out(At(u, "missing"), d, i)}
      [] u.pc = "entries" /\ u.content # {} ->
            LET part == First(u.content)
                directpath == part.path
                next == [u EXCEPT !.content = @ \ {part}]
                seen == [next EXCEPT !.files = @ \cup {directpath}]
            IN  IF part.dir
                THEN IF Named(directpath, DOMAIN u.it.Dirs)
                     THEN {Out(next, d, i)}
                     ELSE {Scheduled(next, d, i, <<RemoveDirectory(directpath)>>)}
                ELSE IF ~Named(directpath, DOMAIN u.it.Files)
                THEN {Scheduled(seen, d, i, <<RemoveFile(directpath)>>)}
                ELSE LET found == u.it.Files[Leaf(directpath)]
                     IN  {Out(Panic(u), d, i)} \cup
                         IF ~Exists(d, directpath) THEN {}
                         ELSE IF Golden(u.current, directpath, found) /\ Match(found, d[directpath])
                         THEN {Out(seen, d, i)}
                         ELSE {Scheduled(seen, d, i,
                                   <<DropFile(found.Digest, directpath, found, u.rewrite)>>)}
      [] u.pc = "missing" ->
            LET names == InOrder({n \in DOMAIN u.it.Files : Join(u.path, n) \notin u.files})
            IN  {Scheduled(At(u, "done"), d, i,
                     [k \in 1..Len(names) |->
                        DropFile(u.it.Files[names[k]].Digest, Join(u.path, names[k]),
                                 u.it.Files[names[k]], u.rewrite)])}
      [] OTHER -> {}

(***************************************************************************)
(* The pool: any unfinished unit may take its next step; a panic is        *)
(* recovered and counted, and anywork.Sync reports the count.              *)
(***************************************************************************)
Run(k, o) ==
    /\ units' = [units EXCEPT ![k] = o.u] \o o.spawn
    /\ disk' = o.disk
    /\ ids' = o.ids
    /\ pool' = IF o.u.pc = "failed" THEN [pool EXCEPT !.failures = @ + 1] ELSE pool
    /\ main' = IF o.dirty = 0 THEN main ELSE [main EXCEPT !.stats = @ + o.dirty]
    /\ UNCHANGED hist

RunLiftFile ==
    \E k \in DOMAIN units :
        /\ units[k].kind = "LiftFile"
        /\ \E o \in LiftStep(units[k], disk, ids) : Run(k, o)

RunDropFile ==
    \E k \in DOMAIN units :
        /\ units[k].kind = "DropFile"
        /\ \E o \in DropStep(units[k], disk, ids) : Run(k, o)

RunRemoveFile ==
    \E k \in DOMAIN units :
        /\ units[k].kind = "RemoveFile"
        /\ \E o \in RemoveStep(units[k], disk, ids) : Run(k, o)

RunRemoveDirectory ==
    \E k \in DOMAIN units :
        /\ units[k].kind = "RemoveDirectory"
        /\ \E o \in RemoveStep(units[k], disk, ids) : Run(k, o)

RunRestoreDirectory ==
    \E k \in DOMAIN units :
        /\ units[k].kind = "RestoreDirectory"
        /\ \E o \in RestoreStep(units[k], disk, ids) : Run(k, o)

(***************************************************************************)
(* SpecRetry: the calling thread runs one retry primitive on a small file  *)
(* system whose calls fail or succeed as the operating system decides.     *)
(***************************************************************************)
OldData == <<"o">>

NewData == <<"n">>

RetryTarget == P(<<"out", "t">>)

RetrySource == PartName(RetryTarget, 1)

RetryTargets ==
    LET none == <<>>
        parent == Put(none, Parent(RetryTarget), DirEntry(motherTime))
        file == Put(parent, RetryTarget, FileEntry(OldData, "0644", motherTime))
        dir == Put(parent, RetryTarget, DirEntry(Now))
        full == Put(dir, Join(RetryTarget, "x"), FileEntry(OldData, "0644", Now))
    IN  {parent, file, dir, full}

NoPool == [failures |-> 0]

NoHist == [renames |-> <<>>]

InitRetry ==
    /\ \E fn \in {"Remove", "RemoveAll", "Rename"} :
       \E d \in RetryTargets :
          /\ disk = IF fn = "Rename"
                    THEN Put(d, RetrySource, FileEntry(NewData, CreateMode, Now))
                    ELSE d
          /\ main = [op |-> "Try", rt |-> TryBegin(fn, IF fn = "Rename" THEN RetrySource ELSE NoPath, RetryTarget)]
    /\ units = <<>>
    /\ ids = 1
    /\ pool = NoPool
    /\ hist = NoHist

\* The thread's next step inside TryRemove, TryRemoveAll or TryRename.
MainTry ==
    /\ main.op = "Try"
    /\ \E o \in TryStep(main.rt, disk) :
          /\ main' = [main EXCEPT !.rt = o.rt]
          /\ disk' = o.disk
    /\ UNCHANGED <<units, ids, pool, hist>>

NextRetry == MainTry

SpecRetry == InitRetry /\ [][NextRetry]_vars

Calls(log) == SelectSeq(log, LAMBDA e : e.ev = "call")

AllFailed(c, from, to) == \A i \in from..to : i <= Len(c) => ~c[i].ok

\* C7: TryRemove and TryRemoveAll make at most five attempts, sleep 0, 100,
\* 200, 300, 400 ms before attempts 1..5, return nil at the first success with
\* no further attempt, and return an error, carrying the last attempt's OS
\* error, exactly when all five attempts failed.
C7_RemoveRetries ==
    (main.op = "Try" /\ main.rt.fn \in {"Remove", "RemoveAll"}) =>
        LET r == main.rt
            c == Calls(r.log)
            n == Len(c)
        IN  /\ n <= 5
            /\ Len(r.log) = 2 * n
            /\ \A i \in 1..n :
                  /\ r.log[2 * i - 1] = Slept((i - 1) * 100)
                  /\ r.log[2 * i].ev = "call"
                  /\ r.log[2 * i].to = r.target
            /\ AllFailed(c, 1, n - 1)
            /\ (n > 0 /\ c[n].ok) => (r.pc = "ret" /\ r.ret.nil)
            /\ r.pc = "ret" =>
                  /\ n > 0
                  /\ r.ret.nil <=> c[n].ok
                  /\ ~r.ret.nil <=> (n = 5 /\ AllFailed(c, 1, 5))
                  /\ ~r.ret.nil => r.ret.reason = 5
            /\ r.pc # "ret" => n < 5

\* TryRemove returned nil at its third attempt: the file is gone.
C7_Witness ==
    /\ main.op = "Try" /\ main.rt.fn = "Remove"
    /\ main.rt.pc = "ret" /\ main.rt.ret.nil
    /\ Len(Calls(main.rt.log)) = 3
    /\ ~Exists(disk, RetryTarget)

\* C6 as stated: after five failed primary attempts one rename to the
\* intermediate path; the second loop runs only if that rename succeeded, from
\* the intermediate path; the error names "target" exactly when the
\* intermediate rename succeeded and the second loop failed, and "source"
\* exactly when the intermediate rename failed.
C6_AsClaimed ==
    (main.op = "Try" /\ main.rt.fn = "Rename") =>
        LET r == main.rt
            c == Calls(r.log)
            n == Len(c)
        IN  /\ n >= 6 => (AllFailed(c, 1, 5) /\ c[6].to = Intermediate(RetrySource))
            /\ n >= 7 => c[6].ok
            /\ \A i \in 7..n : c[i].from = Intermediate(RetrySource) /\ c[i].to = r.target
            /\ r.pc = "ret" =>
                  /\ (~r.ret.nil /\ r.ret.origin = "target")
                        <=> (n = 11 /\ c[6].ok /\ AllFailed(c, 7, 11))
                  /\ (~r.ret.nil /\ r.ret.origin = "source")
                        <=> (n >= 6 /\ ~c[6].ok)

\* C6 as the code has it: after five failed primary attempts one rename to
\* the intermediate path, and then always a second loop of up to five
\* attempts, from the intermediate path if that rename succeeded and from the
\* source again if it failed; an error is returned exactly when the second
\* loop's five attempts all failed, naming "target" if the intermediate rename
\* had succeeded and "source" if it had failed.
C6_TwoPhase ==
    (main.op = "Try" /\ main.rt.fn = "Rename") =>
        LET r == main.rt
            c == Calls(r.log)
            n == Len(c)
            second == IF n >= 6 /\ c[6].ok THEN Intermediate(RetrySource) ELSE RetrySource
        IN  /\ n <= 11
            /\ \A i \in 1..n : i <= 5 => (c[i].from = RetrySource /\ c[i].to = r.target)
            /\ n >= 6 => /\ AllFailed(c, 1, 5)
                         /\ c[6].from = RetrySource
                         /\ c[6].to = Intermediate(RetrySource)
            /\ \A i \in 7..n : c[i].from = second /\ c[i].to = r.target
            /\ AllFailed(c, 7, n - 1)
            /\ (r.pc # "ret" /\ n >= 6) => AllFailed(c, 7, n)
            /\ r.pc = "ret" =>
                  /\ r.ret.nil <=> c[n].ok
                  /\ r.ret.nil => n # 6
                  /\ ~r.ret.nil <=> (n = 11 /\ AllFailed(c, 7, 11))
                  /\ (~r.ret.nil /\ r.ret.origin = "target") <=> (n = 11 /\ ~c[11].ok /\ c[6].ok)
                  /\ (~r.ret.nil /\ r.ret.origin = "source") <=> (n = 11 /\ ~c[11].ok /\ ~c[6].ok)

\* The intermediate rename failed, and the second loop, from the source,
\* succeeded at its second attempt: TryRename returned nil.
C6_Witness ==
    /\ main.op = "Try" /\ main.rt.fn = "Rename"
    /\ main.rt.pc = "ret" /\ main.rt.ret.nil
    /\ LET c == Calls(main.rt.log)
       IN  Len(c) = 8 /\ ~c[6].ok /\ c[8].from = RetrySource
    /\ IsFile(disk, RetryTarget) /\ disk[RetryTarget].data = NewData

(***************************************************************************)
(* SpecFiles: two lift units, or two drop units, for one target path run   *)
(* in the pool in every interleaving; the target is absent or holds an old *)
(* file.                                                                   *)
(***************************************************************************)
FileBody == <<"a", "b">>

Patch == <<"X">>

SourceName == P(<<"src", "a">>)

OutName == P(<<"out", "t">>)

Details(digest, rewrite, mode) ==
    [Name |-> "t", Digest |-> digest, Rewrite |-> rewrite, Mode |-> mode, Size |-> Len(FileBody)]

BaseDisk ==
    LET dirs == [p \in {P(<<"src">>), P(<<"out">>), Location("d1")} |-> DirEntry(motherTime)]
        src == Put(dirs, SourceName, FileEntry(FileBody, "0644", Now))
    IN  Put(src, ExactLocation("d1"), FileEntry(Gzip(FileBody), CreateMode, Now))

FilesCases ==
    { [units |-> <<DropFile("d1", OutName, Details("d1", <<1>>, "0755"), Patch),
                   DropFile("d1", OutName, Details("d1", <<>>, "0644"), Patch)>>,
       target |-> OutName],
      [units |-> <<LiftFile(SourceName, ExactLocation("d2")),
                   LiftFile(SourceName, ExactLocation("d2"))>>,
       target |-> ExactLocation("d2")] }

InitFiles ==
    /\ \E c \in FilesCases :
       \E old \in BOOLEAN :
          /\ units = c.units
          /\ disk = IF old THEN Put(BaseDisk, c.target, FileEntry(OldData, "0644", motherTime))
                    ELSE BaseDisk
    /\ ids = 1
    /\ main = [op |-> "Wait"]
    /\ pool = NoPool
    /\ hist = [old |-> disk]

NextFiles == RunLiftFile \/ RunDropFile

SpecFiles == InitFiles /\ [][NextFiles]_vars

\* The bytes DropFile writes: the body, then the patch at each offset in turn.
RECURSIVE Patched(_, _, _)
Patched(data, offsets, bytes) ==
    IF offsets = <<>> THEN data
    ELSE Patched(WriteAt(data, Head(offsets), bytes), Tail(offsets), bytes)

\* The complete file a unit is to place at its target.
Complete(u) ==
    IF u.kind = "LiftFile" THEN Gzip(FileBody)
    ELSE Patched(FileBody, u.details.Rewrite, u.rewrite)

Targets == {units[k].sinkname : k \in DOMAIN units}

\* C1: at every step the target path of a lift or drop is absent, holds the
\* complete old file, or holds the complete new file of a unit for that path;
\* and its content changes only by a rename of a complete file onto it.
C1_TargetWhole ==
    \A t \in Targets :
        \/ ~Exists(disk, t)
        \/ /\ IsFile(disk, t)
           /\ \/ Exists(hist.old, t) /\ disk[t].data = hist.old[t].data
              \/ \E k \in DOMAIN units :
                    units[k].sinkname = t /\ disk[t].data = Complete(units[k])

C1_OnlyByRename ==
    \A t \in Targets :
        (Exists(disk', t) /\ (~Exists(disk, t) \/ disk'[t].data # disk[t].data)) =>
            \E k \in DOMAIN units :
                /\ units[k].pc = "rename" /\ units[k].rt.pc = "loop"
                /\ units[k].rt.target = t
                /\ Exists(disk, units[k].rt.source)
                /\ disk'[t] = disk[units[k].rt.source]
                /\ ~Exists(disk', units[k].rt.source)

C1_Atomic == [](C1_TargetWhole) /\ [][C1_OnlyByRename]_vars

\* Both drops ran to the rename while the old file was in place, and the
\* target now holds the patched body of the first.
C1_Witness ==
    /\ Len(units) = 2 /\ units[1].kind = "DropFile"
    /\ Exists(hist.old, OutName)
    /\ units[2].pc = "rename"
    /\ IsFile(disk, OutName) /\ disk[OutName].data = <<"a", "X">>
    /\ IsFile(disk, units[2].partname) /\ disk[units[2].partname].data = FileBody

\* C2: once a lift or drop unit has failed and finished, no staging file it
\* created is left: neither its partial nor the intermediate file TryRename
\* made of it.  (A deferred os.Remove that the operating system refused for a
\* partial still in place is not counted against the claim.)
C2_NoStagingLeft ==
    \A k \in DOMAIN units :
        (units[k].pc = "failed" /\ units[k].cleanup # "refused") =>
            /\ ~Exists(disk, units[k].partname)
            /\ ~Exists(disk, Intermediate(units[k].partname))

(***************************************************************************)
(* SpecDrop: one DropFile unit, for every small body, list of rewrite      *)
(* offsets and patch.                                                      *)
(***************************************************************************)
MaxBody == 3

MaxOffset == 4

MaxPatches == 2

Letters == <<"a", "b", "c", "d", "e", "f">>

Bodies == {SubSeq(Letters, 1, n) : n \in 0..MaxBody}

Offsets == UNION {[1..n -> -1..MaxOffset] : n \in 0..MaxPatches}

Patches == {<<"X">>, <<"X", "Y">>}

InitDrop ==
    /\ \E body \in Bodies, offsets \in Offsets, patch \in Patches, old \in BOOLEAN :
          /\ disk = LET lib == Put(BaseDisk, ExactLocation("d1"),
                                   FileEntry(Gzip(body), CreateMode, Now))
                    IN  IF old THEN Put(lib, OutName, FileEntry(OldData, "0644", motherTime))
                        ELSE lib
          /\ units = <<DropFile("d1", OutName,
                                [Name |-> "t", Digest |-> "d1", Rewrite |-> offsets,
                                 Mode |-> "0755", Size |-> Len(body)], patch)>>
    /\ ids = 1
    /\ main = [op |-> "Wait"]
    /\ pool = NoPool
    /\ hist = [old |-> disk]

NextDrop == RunDropFile

SpecDrop == InitDrop /\ [][NextDrop]_vars

DropBody == Gunzip(disk[ExactLocation("d1")].data)

Dropped == units[1].pc = "done" /\ IsFile(disk, OutName)

InRange(i, o, bytes) == i > o /\ i <= o + Len(bytes)

\* C8: when a rewrite offset lies past the length of the decompressed body
\* the DropFile unit fails and does not place the target: the unit never ends
\* without error, and the target stays as it was.
C8_RewriteOutOfRange ==
    (/\ Len(units) = 1 /\ units[1].kind = "DropFile"
     /\ \E k \in DOMAIN units[1].details.Rewrite :
            units[1].details.Rewrite[k] > Len(DropBody)) =>
        /\ units[1].pc # "done"
        /\ Exists(disk, OutName) <=> Exists(hist.old, OutName)
        /\ Exists(disk, OutName) => disk[OutName] = hist.old[OutName]

Orders(n) == {f \in [1..n -> 1..n] : \A i, j \in 1..n : f[i] = f[j] => i = j}

\* C9 as stated: a successful DropFile places the body B with the patch R at
\* [o, o+len(R)) for every offset o; exactly B when there are no offsets; and
\* the same file in whatever order the offsets are listed.  (Read in the
\* claim's favour: bytes past the end of B are not compared.)
C9_AsClaimed ==
    (Len(units) = 1 /\ units[1].kind = "DropFile" /\ Dropped) =>
        LET placed == disk[OutName].data
            O == units[1].details.Rewrite
            R == units[1].rewrite
        IN  /\ \A i \in 1..Len(DropBody) :
                  (\A k \in DOMAIN O : ~InRange(i, O[k], R)) =>
                      (i <= Len(placed) /\ placed[i] = DropBody[i])
            /\ \A k \in DOMAIN O : \A j \in 1..Len(R) :
                  O[k] + j <= Len(placed) /\ placed[O[k] + j] = R[j]
            /\ O = <<>> => placed = DropBody
            /\ \A f \in Orders(Len(O)) :
                  Patched(DropBody, [i \in 1..Len(O) |-> O[f[i]]], R) = placed

\* C9 as the code has it: a successful DropFile places the body B overwritten
\* by the patch R at each offset in the listed order.  The file is as long as
\* the furthest of B and the patch ranges; outside every range it equals B,
\* and zero past the end of B; a range holds R wherever no later-listed range
\* overlaps it; with no offsets the file is exactly B; and the order of the
\* offsets does not matter when the ranges are pairwise disjoint.
C9_RewriteOnDrop ==
    (Len(units) = 1 /\ units[1].kind = "DropFile" /\ Dropped) =>
        LET placed == disk[OutName].data
            O == units[1].details.Rewrite
            R == units[1].rewrite
            Free(i) == \A k \in DOMAIN O : ~InRange(i, O[k], R)
        IN  /\ \A i \in 1..Len(placed) :
                  \/ i <= Len(DropBody)
                  \/ \E k \in DOMAIN O : i <= O[k] + Len(R)
            /\ Len(placed) >= Len(DropBody)
            /\ \A i \in 1..Len(placed) :
                  Free(i) => placed[i] = IF i <= Len(DropBody) THEN DropBody[i] ELSE Zero
            /\ \A k \in DOMAIN O : \A j \in 1..Len(R) :
                  /\ O[k] + j <= Len(placed)
                  /\ (\A l \in DOMAIN O : l > k => ~InRange(O[k] + j, O[l], R))
                        => placed[O[k] + j] = R[j]
            /\ O = <<>> => placed = DropBody
            /\ (\A k, l \in DOMAIN O :
                    k # l => (O[k] + Len(R) <= O[l] \/ O[l] + Len(R) <= O[k])) =>
                  \A f \in Orders(Len(O)) :
                      Patched(DropBody, [i \in 1..Len(O) |-> O[f[i]]], R) = placed

\* A drop of "abc" with the two-byte patch at the overlapping offsets 0 and 1.
C9_Witness ==
    /\ Len(units) = 1 /\ units[1].kind = "DropFile" /\ Dropped
    /\ DropBody = <<"a", "b", "c">>
    /\ units[1].details.Rewrite = <<0, 1>>
    /\ units[1].rewrite = <<"X", "Y">>
    /\ disk[OutName].data = <<"X", "X", "Y">>

(***************************************************************************)
(* SpecRestore: a restore of a small target Root into a directory of any   *)
(* content, run twice: MakeBranches, a RestoreDirectory unit per Dir, the  *)
(* barrier; and, after a first run without error, the same again with      *)
(* `current` recording what the first run materialized.                    *)
(***************************************************************************)
RECURSIVE MakeBranches(_, _), BranchesOf(_, _, _)
BranchesOf(path, it, names) ==
    IF names = <<>> THEN <<>>
    ELSE MakeBranches(Join(path, it.Dirs[Head(names)].Name), it.Dirs[Head(names)])
            \o BranchesOf(path, it, Tail(names))

\* A MakeBranches that makes and stamps a directory before its subdirectories.
MakeBranchesEarly(path, it) ==
    <<[call |-> "MkdirAll", path |-> path], [call |-> "Chtimes", path |-> path]>>
        \o BranchesOf(path, it, InOrder(DOMAIN it.Dirs))

\* The calls MakeBranches makes, in order; the first that fails ends it.
MakeBranches(path, it) ==
    BranchesOf(path, it, InOrder(DOMAIN it.Dirs))
        \o (IF DOMAIN it.Dirs = {} THEN <<[call |-> "MkdirAll", path |-> path]>> ELSE <<>>)
        \o <<[call |-> "Chtimes", path |-> path]>>

osBranch(d, c) ==
    IF c.call = "MkdirAll" THEN osMkdirAll(d, c.path) ELSE osChtimes(d, c.path, motherTime)

RECURSIVE AllDirs(_, _), AllDirsOf(_, _, _)
AllDirsOf(path, it, names) ==
    IF names = <<>> THEN <<>>
    ELSE AllDirs(Join(path, Head(names)), it.Dirs[Head(names)]) \o AllDirsOf(path, it, Tail(names))

AllDirs(path, it) ==
    <<[path |-> path, it |-> it]>> \o AllDirsOf(path, it, InOrder(DOMAIN it.Dirs))

RECURSIVE DigestRecorder(_, _), DigestRecorderOf(_, _, _)
DigestRecorderOf(path, it, names) ==
    IF names = <<>> THEN <<>>
    ELSE DigestRecorder(Join(path, Head(names)), it.Dirs[Head(names)])
            @@ DigestRecorderOf(path, it, Tail(names))

\* target[filepath.Join(path, name)] = file.Digest, for every file of the tree.
DigestRecorder(path, it) ==
    [p \in {Join(path, n) : n \in DOMAIN it.Files} |-> it.Files[Leaf(p)].Digest]
        @@ DigestRecorderOf(path, it, InOrder(DOMAIN it.Dirs))

OutDir == P(<<"out">>)

TargetFile(rewrite) ==
    [Name |-> "a", Digest |-> "d1", Rewrite |-> rewrite, Mode |-> "0644", Size |-> Len(FileBody)]

TargetTrees(rewrite) ==
    LET files == [n \in {"a"} |-> TargetFile(rewrite)]
        leaf == [n \in {"s"} |-> [Name |-> "s", Files |-> <<>>, Dirs |-> <<>>]]
    IN  {[Name |-> "out", Files |-> files, Dirs |-> <<>>],
         [Name |-> "out", Files |-> files, Dirs |-> leaf]}

\* What a destination may hold under the name of the target file ...
FileCases(rewrite) ==
    {<<>>,
     [p \in {Join(OutDir, "a")} |-> FileEntry(Patched(FileBody, rewrite, Patch), "0644", motherTime)],
     [p \in {Join(OutDir, "a")} |-> FileEntry(<<"z", "z">>, "0644", motherTime)],
     [p \in {Join(OutDir, "a")} |-> FileEntry(OldData, "0644", Now)],
     [p \in {Join(OutDir, "a")} |-> DirEntry(Now)]}

\* ... and under the name "s".
OtherCases ==
    {<<>>,
     [p \in {Join(OutDir, "s")} |-> FileEntry(OldData, "0644", Now)],
     [p \in {Join(OutDir, "s")} |-> DirEntry(Now)],
     [p \in {Join(OutDir, "s"), Join(Join(OutDir, "s"), "x")} |->
        IF p = Join(OutDir, "s") THEN DirEntry(Now) ELSE FileEntry(OldData, "0644", Now)]}

CurrentCases ==
    {<<>>, [p \in {Join(OutDir, "a")} |-> "d1"], [p \in {Join(OutDir, "a")} |-> "d0"]}

RewriteCases == {<<0>>, <<3>>}

InitRestore ==
    /\ \E rewrite \in RewriteCases :
       \E tree \in TargetTrees(rewrite), a \in FileCases(rewrite), s \in OtherCases,
          current \in CurrentCases :
          /\ disk = a @@ s @@ BaseDisk
          /\ main = [op |-> "Restore", pc |-> "branches", pass |-> 1,
                     root |-> [Path |-> OutDir, Tree |-> tree, Rewrite |-> Patch],
                     calls |-> MakeBranches(OutDir, tree),
                     current |-> current, stats |-> 0, mark |-> 0]
    /\ units = <<>>
    /\ ids = 1
    /\ pool = NoPool
    /\ hist = [old |-> disk]

MainMakeBranches ==
    /\ main.op = "Restore" /\ main.pc = "branches"
    /\ IF main.calls = <<>>
       THEN main' = [main EXCEPT !.pc = "schedule"] /\ disk' = disk
       ELSE \E o \in osBranch(disk, Head(main.calls)) :
               /\ disk' = o.disk
               /\ main' = IF o.ok THEN [main EXCEPT !.calls = Tail(@)]
                          ELSE [main EXCEPT !.pc = "error"]
    /\ UNCHANGED <<units, ids, pool, hist>>

\* A RestoreDirectory unit for every Dir of the tree.
MainAllDirs ==
    /\ main.op = "Restore" /\ main.pc = "schedule"
    /\ LET dirs == AllDirs(main.root.Path, main.root.Tree)
       IN  units' = units \o [k \in 1..Len(dirs) |->
                RestoreDirectory(dirs[k].path, dirs[k].it, main.current, main.root.Rewrite)]
    /\ main' = [main EXCEPT !.pc = "sync"]
    /\ UNCHANGED <<disk, ids, pool, hist>>

\* anywork.Sync: every unit has ended; a failure ends the restore, and a
\* first run without one is followed by the second.
MainSync ==
    /\ main.op = "Restore" /\ main.pc = "sync"
    /\ \A k \in DOMAIN units : Finished(units[k])
    /\ main' = IF pool.failures > 0 THEN [main EXCEPT !.pc = "error"]
               ELSE IF main.pass = 1
               THEN [main EXCEPT !.pc = "branches", !.pass = 2, !.stats = 0,
                                 !.mark = Len(units),
                                 !.calls = MakeBranches(main.root.Path, main.root.Tree),
                                 !.current = DigestRecorder(main.root.Path, main.root.Tree)]
               ELSE [main EXCEPT !.pc = "end"]
    /\ UNCHANGED <<disk, units, ids, pool, hist>>

NextRestore ==
    \/ MainMakeBranches
    \/ MainAllDirs
    \/ MainSync
    \/ RunRestoreDirectory
    \/ RunDropFile
    \/ RunRemoveFile
    \/ RunRemoveDirectory

SpecRestore == InitRestore /\ [][NextRestore]_vars

\* The first run has completed without error.
Restored ==
    /\ main.op = "Restore" /\ main.pass = 1 /\ main.pc = "sync"
    /\ \A k \in DOMAIN units : units[k].pc = "done"

\* C3: the second run of a restore that completed without error schedules no
\* RemoveFile, RemoveDirectory or DropFile and marks nothing dirty.
C3_SecondRunClean ==
    (main.op = "Restore" /\ main.pass = 2) =>
        /\ main.stats = 0
        /\ \A k \in DOMAIN units : k > main.mark => units[k].kind = "RestoreDirectory"

LibraryBody(digest) == Gunzip(disk[ExactLocation(digest)].data)

\* The file DropFile is to place for a File of the target.
Materialized(found, rewrite) == Patched(LibraryBody(found.Digest), found.Rewrite, rewrite)

DropScheduled(path) ==
    \E k \in DOMAIN units : units[k].kind = "DropFile" /\ units[k].sinkname = path

RestoreUnits == {k \in DOMAIN units : units[k].kind = "RestoreDirectory"}

\* C4 as stated: once a directory's RestoreDirectory unit and the operations
\* it scheduled have completed without error, the directory's files are those
\* of the target Dir, each with the target content, and it has no
\* subdirectory that the target Dir lacks.
C4_AsClaimed ==
    Restored =>
        \A k \in RestoreUnits :
            LET u == units[k]
                listed == Children(disk, u.path)
            IN  /\ {q \in listed : IsFile(disk, q)} = {Join(u.path, n) : n \in DOMAIN u.it.Files}
                /\ \A n \in DOMAIN u.it.Files :
                      disk[Join(u.path, n)].data = Materialized(u.it.Files[n], u.rewrite)
                /\ \A q \in listed : IsDir(disk, q) => Named(q, DOMAIN u.it.Dirs)

\* C4 as the code has it: the directory's files are those of the target Dir
\* and it has no subdirectory that the target Dir lacks; a file for which the
\* unit scheduled a DropFile holds the target content, with the File's mode
\* and the mother time; every other file is the one that was there before,
\* untouched, which was golden and matched the File's stat fingerprint -
\* whatever its content.
C4_Reconciled ==
    Restored =>
        \A k \in RestoreUnits :
            LET u == units[k]
                listed == Children(disk, u.path)
            IN  /\ {q \in listed : IsFile(disk, q)} = {Join(u.path, n) : n \in DOMAIN u.it.Files}
                /\ \A q \in listed : IsDir(disk, q) => Named(q, DOMAIN u.it.Dirs)
                /\ \A n \in DOMAIN u.it.Files :
                      LET path == Join(u.path, n)
                          found == u.it.Files[n]
                      IN  IF DropScheduled(path)
                          THEN disk[path] = FileEntry(Materialized(found, u.rewrite),
                                                      found.Mode, motherTime)
                          ELSE /\ Exists(hist.old, path)
                               /\ disk[path] = hist.old[path]
                               /\ (path \in DOMAIN u.current => u.current[path] = found.Digest)
                               /\ Len(disk[path].data) = found.Size
                               /\ disk[path].mode = found.Mode
                               /\ disk[path].mtime = motherTime

\* S5 with a twist: the destination held a stale "a" and a directory "s" with
\* a file in it; the restore dropped "a" and removed "s".
C4_Witness ==
    /\ Restored
    /\ DOMAIN main.root.Tree.Dirs = {}
    /\ Exists(hist.old, Join(Join(OutDir, "s"), "x"))
    /\ Exists(hist.old, Join(OutDir, "a")) /\ hist.old[Join(OutDir, "a")].data = OldData
    /\ \E k \in DOMAIN units : units[k].kind = "RemoveDirectory"
    /\ DropScheduled(Join(OutDir, "a"))
    /\ Children(disk, OutDir) = {Join(OutDir, "a")}

(***************************************************************************)
(* SpecLifters: the calling thread walks a tree with the ScheduleLifters   *)
(* scheduler while the pool runs the LiftFile units it has handed over.    *)
(* The tree is src/{a, b, s/{c}}; a map is ranged over in any order.       *)
(***************************************************************************)
\* A scheduler that has never seen anything.
SeenNothing(seen, key) == FALSE

\* seen[key]: one map holds the digests and the library directories.
Seen(seen, key) == key \in seen

DigestKey(digest) == <<digest>>

DirectoryKey(directory) == directory.base

\* One call of the scheduler: the Dir, and what its two loops have left.
Frame(path, it) == [path |-> path, it |-> it, dirs |-> DOMAIN it.Dirs, files |-> DOMAIN it.Files]

ScheduleLifters(path, it) ==
    [op |-> "Lift", stack |-> <<Frame(path, it)>>, seen |-> {}, stats |-> 0]

\* The body of `for name, file := range it.Files` for one file.
Visit(m, d, path, file) ==
    IF Seen(m.seen, DigestKey(file.Digest))
    THEN {[main |-> m, disk |-> d, spawn |-> <<>>]}
    ELSE LET directory == Location(file.Digest)
             made == IF ~Seen(m.seen, DirectoryKey(directory)) /\ ~IsDir(d, directory)
                     THEN {o.disk : o \in osMkdirAll(d, directory)}
                     ELSE {d}
             sinkpath == Join(directory, file.Digest)
             marked == [m EXCEPT !.seen = @ \cup {DigestKey(file.Digest), DirectoryKey(directory)}]
         IN  { IF IsFile(e, sinkpath)
               THEN [main |-> marked, disk |-> e, spawn |-> <<>>]
               ELSE [main |-> [marked EXCEPT !.stats = @ + 1], disk |-> e,
                     spawn |-> <<LiftFile(Join(path, file.Name), sinkpath)>>] : e \in made }

Replace(stack, frame) == [stack EXCEPT ![Len(stack)] = frame]

\* The scheduler's next step: into a subdirectory, on to a file, or back.
MainScheduler ==
    /\ main.op = "Lift" /\ main.stack # <<>>
    /\ LET top == main.stack[Len(main.stack)]
       IN  IF top.dirs # {}
           THEN \E name \in top.dirs :
                   /\ main' = [main EXCEPT !.stack =
                                 Append(Replace(@, [top EXCEPT !.dirs = @ \ {name}]),
                                        Frame(Join(top.path, name), top.it.Dirs[name]))]
                   /\ UNCHANGED <<disk, units>>
           ELSE IF top.files # {}
           THEN \E name \in top.files :
                \E o \in Visit([main EXCEPT !.stack = Replace(@, [top EXCEPT !.files = @ \ {name}])],
                               disk, top.path, top.it.Files[name]) :
                   /\ main' = o.main
                   /\ disk' = o.disk
                   /\ units' = units \o o.spawn
           ELSE /\ main' = [main EXCEPT !.stack = SubSeq(@, 1, Len(@) - 1)]
                /\ UNCHANGED <<disk, units>>
    /\ UNCHANGED <<ids, pool, hist>>

Digests == {"d1", "d2"}

BodyOf(digest) == IF digest = "d1" THEN <<"a">> ELSE <<"b">>

SourceFile(name, digest) ==
    [Name |-> name, Digest |-> digest, Rewrite |-> <<>>, Mode |-> "0644", Size |-> Len(BodyOf(digest))]

\* src/{a, b, s/{c}} with the digests of b and c as given.
SourceTree(b, c) ==
    LET sub == [Name |-> "s", Files |-> [n \in {"c"} |-> SourceFile("c", c)], Dirs |-> <<>>]
    IN  [Name |-> "src",
         Files |-> [n \in {"a", "b"} |-> SourceFile(n, IF n = "a" THEN "d1" ELSE b)],
         Dirs |-> [n \in {"s"} |-> sub]]

SourceDisk(b, c) ==
    LET src == P(<<"src">>)
        sub == Join(src, "s")
    IN  [p \in {src, sub} |-> DirEntry(motherTime)]
        @@ [p \in {Join(src, "a")} |-> FileEntry(BodyOf("d1"), "0644", Now)]
        @@ [p \in {Join(src, "b")} |-> FileEntry(BodyOf(b), "0644", Now)]
        @@ [p \in {Join(sub, "c")} |-> FileEntry(BodyOf(c), "0644", Now)]

\* The library before the walk: no shard directory, or one with some objects.
LibraryCases ==
    {<<>>} \cup
    { [p \in {Location("d1")} |-> DirEntry(motherTime)]
        @@ [p \in {ExactLocation(g) : g \in have} |-> FileEntry(Gzip(BodyOf(p.base[Len(p.base)])), CreateMode, motherTime)] :
      have \in SUBSET Digests }

InitLifters ==
    /\ \E b \in Digests, c \in Digests, lib \in LibraryCases :
          /\ disk = lib @@ SourceDisk(b, c)
          /\ main = ScheduleLifters(P(<<"src">>), SourceTree(b, c))
    /\ units = <<>>
    /\ ids = 1
    /\ pool = NoPool
    /\ hist = [old |-> disk]

NextLifters == MainScheduler \/ RunLiftFile

SpecLifters == InitLifters /\ [][NextLifters]_vars

\* The digests of the bodies the tree holds.
Ingested ==
    {g \in Digests : \E p \in DOMAIN hist.old :
        /\ IsFile(hist.old, p) /\ p.base[1] = "src"
        /\ hist.old[p].data = BodyOf(g)}

Lifts(g) == {k \in DOMAIN units : units[k].kind = "LiftFile" /\ units[k].sinkname = ExactLocation(g)}

\* The unit's TryRename has renamed its staging file onto the sink.
Renamed(u) ==
    \/ u.pc = "rename" /\ u.rt.pc = "ret" /\ u.rt.ret.nil
    \/ u.pc \in {"defer", "done"} /\ ~u.panicked

WalkDone == main.op = "Lift" /\ main.stack = <<>> /\ \A k \in DOMAIN units : units[k].pc = "done"

C5_OnePerDigest ==
    \A g \in Digests :
        /\ Cardinality(Lifts(g)) <= 1
        /\ IsFile(hist.old, ExactLocation(g)) => Lifts(g) = {}

C5_OneObject ==
    WalkDone =>
        /\ \A g \in Ingested :
              /\ IsFile(disk, ExactLocation(g))
              /\ IsGzip(disk[ExactLocation(g)].data)
              /\ Gunzip(disk[ExactLocation(g)].data) = BodyOf(g)
              /\ Cardinality({k \in Lifts(g) : Renamed(units[k])})
                    = IF IsFile(hist.old, ExactLocation(g)) THEN 0 ELSE 1
        /\ Children(disk, Location("d1"))
              = {ExactLocation(g) : g \in Ingested}
                    \cup Children(hist.old, Location("d1"))

C5_CreatedOnce ==
    \A g \in Digests :
        IsFile(disk, ExactLocation(g)) =>
            Exists(disk', ExactLocation(g)) /\ disk'[ExactLocation(g)] = disk[ExactLocation(g)]

\* C5: a walk schedules at most one LiftFile per digest and none for a digest
\* whose library object was already there; an object, once there, is never
\* written again; and when the walk and its units have completed, every
\* ingested digest has exactly one library object, holding its body, put
\* there by exactly one rename (none if it was there before), and the library
\* directory holds nothing else new.
C5_LibraryDedup == [](C5_OnePerDigest /\ C5_OneObject) /\ [][C5_CreatedOnce]_vars

\* The same body under three names, in two directories, in a library that had
\* no shard directory: one unit, one object.
C5_Witness ==
    /\ WalkDone
    /\ Ingested = {"d1"}
    /\ ~Exists(hist.old, Location("d1"))
    /\ Len(units) = 1 /\ Renamed(units[1])
    /\ main.stats = 1
    /\ IsFile(disk, ExactLocation("d1"))

(***************************************************************************)
(* SpecLoad: LoadHololibHashes.  The calling thread hands a CatalogLoader  *)
(* per catalog file to the pool, waits, hands a DigestLoader per root to   *)
(* the pool, waits, and inverts the slots.  A catalog file is its list of  *)
(* digests, or is corrupt.                                                 *)
(***************************************************************************)
NoSlot == [nil |-> TRUE, map |-> <<>>]

HololibCatalogLocation == P(<<"hololib", "catalog">>)

Shadow == P(<<"tmp", "shadow">>)

Corrupt == "?"

\* Catalogs(): the names of the catalog files.
Catalogs(d) ==
    LET names == InOrder({Leaf(q) : q \in {c \in Children(d, HololibCatalogLocation) : IsFile(d, c)}})
    IN  [k \in 1..Len(names) |-> P(<<names[k]>>)]

\* Root.LoadFrom: the tree the catalog file describes.
LoadFrom(d, catalog) ==
    {[ok |-> FALSE, root |-> NoRoot]} \cup
    IF IsFile(d, catalog) /\ \A k \in 1..Len(d[catalog].data) : d[catalog].data[k] # Corrupt
    THEN LET data == d[catalog].data
             files == [n \in {SortedNames[k] : k \in 1..Len(data)} |->
                         SourceFile(n, data[CHOOSE k \in 1..Len(data) : SortedNames[k] = n])]
         IN  {[ok |-> TRUE,
               root |-> [nil |-> FALSE, Path |-> Shadow,
                         Tree |-> [Name |-> "shadow", Files |-> files, Dirs |-> <<>>]]]}
    ELSE {}

\* The maps a DigestMapper walk can leave: subdirectories first, then the
\* files, each map ranged over in any order, a later entry replacing an
\* earlier one for the same digest.
RECURSIVE DigestMapper(_, _)
DigestMapper(path, it) ==
    LET own == {f \in [{it.Files[n].Digest : n \in DOMAIN it.Files}
                          -> {Join(path, n) : n \in DOMAIN it.Files}] :
                   \A g \in DOMAIN f : it.Files[Leaf(f[g])].Digest = g}
        subs == [n \in DOMAIN it.Dirs |-> DigestMapper(Join(path, n), it.Dirs[n])]
        picks == {c \in [DOMAIN it.Dirs -> UNION {subs[n] : n \in DOMAIN it.Dirs}] :
                     \A n \in DOMAIN it.Dirs : c[n] \in subs[n]}
        merged(c) == LET keys == UNION {DOMAIN c[n] : n \in DOMAIN it.Dirs}
                         values == UNION {{c[n][g] : g \in DOMAIN c[n]} : n \in DOMAIN it.Dirs}
                     IN  {m \in [keys -> values] :
                            \A g \in keys : \E n \in DOMAIN it.Dirs :
                                g \in DOMAIN c[n] /\ m[g] = c[n][g]}
        below == UNION {merged(c) : c \in picks}
    IN  {f @@ b : f \in own, b \in below}

CatalogLoader(catalog, at) ==
    [BlankUnit EXCEPT !.kind = "CatalogLoader", !.sourcename = catalog, !.n = at]

CatalogStep(u, d) ==
    CASE u.pc = "open" ->
            {[u |-> Panic(u), root |-> NoRoot], [u |-> At(u, "load"), root |-> NoRoot]}
      [] u.pc = "load" ->
            {[u |-> IF o.ok THEN At(u, "done") ELSE Panic(u), root |-> o.root] :
                o \in LoadFrom(d, u.sourcename)}
      [] OTHER -> {}

\* A DigestLoader that always fills the first slot.
DigestLoaderFirst(root, at) ==
    [BlankUnit EXCEPT !.kind = "DigestLoader", !.root = root, !.n = 1]

DigestLoader(root, at) ==
    [BlankUnit EXCEPT !.kind = "DigestLoader", !.root = root, !.n = at]

\* root.Path of a nil root panics; the walk itself returns no error.
DigestStep(u) ==
    CASE u.pc = "open" ->
            IF u.root.nil THEN {[u |-> Panic(u), slot |-> NoSlot]}
            ELSE {[u |-> At(u, "done"), slot |-> [nil |-> FALSE, map |-> m]] :
                    m \in DigestMapper(u.root.Path, u.root.Tree)}
      [] OTHER -> {}

Recovered(u) == IF u.pc = "failed" THEN [pool EXCEPT !.failures = @ + 1] ELSE pool

RunCatalogLoader ==
    \E k \in DOMAIN units :
        /\ units[k].kind = "CatalogLoader"
        /\ \E o \in CatalogStep(units[k], disk) :
              /\ units' = [units EXCEPT ![k] = o.u]
              /\ main' = IF o.u.pc = "done" THEN [main EXCEPT !.roots[o.u.n] = o.root] ELSE main
              /\ pool' = Recovered(o.u)
        /\ UNCHANGED <<disk, ids, hist>>

RunDigestLoader ==
    \E k \in DOMAIN units :
        /\ units[k].kind = "DigestLoader"
        /\ \E o \in DigestStep(units[k]) :
              /\ units' = [units EXCEPT ![k] = o.u]
              /\ main' = IF o.u.pc = "done" THEN [main EXCEPT !.slots[o.u.n] = o.slot] ELSE main
              /\ pool' = Recovered(o.u)
        /\ UNCHANGED <<disk, ids, hist>>

\* anywork.Sync: returns once every unit has ended, with the first failure.
Sync(p) == [nil |-> p.failures = 0]

NoReturn == [returned |-> FALSE, index |-> <<>>, err |-> Nil]

\* LoadHololibHashes returns a map and nothing else.
Return(result) == [returned |-> TRUE, index |-> result, err |-> Nil]

LoadHololibHashes(d) ==
    [op |-> "Load", pc |-> "catalogs", at |-> 1, catalogs |-> Catalogs(d),
     roots |-> [k \in 1..Len(Catalogs(d)) |-> NoRoot], slots |-> <<>>, ret |-> NoReturn]

\* LoadCatalogs: a CatalogLoader per catalog, then anywork.Sync(), whose
\* result is dropped.
MainLoadCatalogs ==
    /\ main.op = "Load"
    /\ \/ /\ main.pc = "catalogs" /\ main.at <= Len(main.catalogs)
          /\ LET fullpath == P(HololibCatalogLocation.base \o main.catalogs[main.at].base)
             IN  /\ units' = Append(units, CatalogLoader(fullpath, main.at))
                 /\ main' = [main EXCEPT !.catalogs[main.at] = fullpath, !.at = @ + 1]
       \/ /\ main.pc = "catalogs" /\ main.at > Len(main.catalogs)
          /\ main' = [main EXCEPT !.pc = "sync"]
          /\ units' = units
       \/ /\ main.pc = "sync"
          /\ \A k \in DOMAIN units : Finished(units[k])
          /\ Sync(pool) \in {[nil |-> TRUE], [nil |-> FALSE]}
          /\ main' = [main EXCEPT !.pc = "roots", !.at = 1,
                                  !.slots = [k \in 1..Len(main.roots) |-> NoSlot]]
          /\ units' = units
    /\ UNCHANGED <<disk, ids, pool, hist>>

\* catalog -> true for every digest of the catalog's slot.
Invert(slots, catalogs) ==
    [g \in UNION {DOMAIN slots[at].map : at \in DOMAIN slots} |->
        {catalogs[at] : at \in {a \in DOMAIN slots : g \in DOMAIN slots[a].map}}]

\* The rest of LoadHololibHashes: a DigestLoader per root, nil or not, then
\* anywork.Sync(), whose result is dropped, then the result map.
MainLoadHololibHashes ==
    /\ main.op = "Load"
    /\ \/ /\ main.pc = "roots" /\ main.at <= Len(main.roots)
          /\ units' = Append(units, DigestLoader(main.roots[main.at], main.at))
          /\ main' = [main EXCEPT !.at = @ + 1]
       \/ /\ main.pc = "roots" /\ main.at > Len(main.roots)
          /\ \A k \in DOMAIN units : Finished(units[k])
          /\ Sync(pool) \in {[nil |-> TRUE], [nil |-> FALSE]}
          /\ main' = [main EXCEPT !.pc = "returned",
                                  !.ret = Return(Invert(main.slots, main.catalogs))]
          /\ units' = units
    /\ UNCHANGED <<disk, ids, pool, hist>>

CatalogContents == {<<"d1">>, <<"d1", "d2">>, <<"d2", "d2">>, <<Corrupt>>}

CatalogDisks ==
    LET dir == [p \in {P(<<"hololib">>), HololibCatalogLocation} |-> DirEntry(motherTime)]
    IN  { dir @@ [p \in {Join(HololibCatalogLocation, n) : n \in names} |->
                    FileEntry(content[Leaf(p)], "0644", Now)] :
          names \in SUBSET {"a", "b"}, content \in [{"a", "b"} -> CatalogContents] }

InitLoad ==
    /\ disk \in CatalogDisks
    /\ main = LoadHololibHashes(disk)
    /\ units = <<>>
    /\ ids = 1
    /\ pool = NoPool
    /\ hist = [old |-> disk]

NextLoad == MainLoadCatalogs \/ MainLoadHololibHashes \/ RunCatalogLoader \/ RunDigestLoader

SpecLoad == InitLoad /\ [][NextLoad]_vars

\* C10: when LoadHololibHashes has returned and a unit it submitted has
\* failed, its caller has been given an error, and no index.
C10_FailureReported ==
    (main.op = "Load" /\ main.ret.returned /\ pool.failures > 0) =>
        /\ ~main.ret.err.nil
        /\ main.ret.index = <<>>

(***************************************************************************)
(* SpecWalk: the calling thread runs one Treetop walker over the tree      *)
(* src/{a, b, s/{c}}.  A call of the tool is a Frame; a map is ranged over *)
(* in any order.                                                           *)
(***************************************************************************)
HololibLocation == P(<<"hololib">>)

\* A relative path that is the path itself.
RelNone(baseline, location) == location

\* filepath.Rel(baseline, location), for a location under the baseline.
Rel(baseline, location) ==
    P(SubSeq(location.base, Len(baseline.base) + 1, Len(location.base)))

\* A Zipper that records its calls; it may refuse one.
Add(sink, fullpath, relativepath) ==
    {[ok |-> FALSE, sink |-> sink],
     [ok |-> TRUE, sink |-> Append(sink, [absolute |-> fullpath, relative |-> relativepath])]}

JustFileExistCheck(path, name, digest) ==
    [BlankUnit EXCEPT !.kind = "JustFileExistCheck", !.path = path,
                      !.sourcename = Join(path, name), !.digest = digest]

JustFileExistStep(u, d, i) ==
    CASE u.pc = "open" ->
            {Out(IF IsFile(d, ExactLocation(u.digest)) THEN At(u, "done") ELSE Panic(u), d, i)}
      [] OTHER -> {}

RunJustFileExistCheck ==
    \E k \in DOMAIN units :
        /\ units[k].kind = "JustFileExistCheck"
        /\ \E o \in JustFileExistStep(units[k], disk, ids) : Run(k, o)

\* A walker that goes into every subdirectory before its files.
SubdirsFirstAlways(tool) == TRUE

\* Which of its two loops a tool runs first.
SubdirsFirst(tool) == tool \notin {"CatalogCheck", "ZipRoot"}

Walker(tool, path, it) ==
    [op |-> "Walk", tool |-> tool, stack |-> <<Frame(path, it)>>,
     mapped |-> <<>>, recorded |-> <<>>, sink |-> <<>>, err |-> FALSE]

Top(m) == m.stack[Len(m.stack)]

\* What the tool's call on top does next: a subdirectory, a file, or return.
Turn(m) ==
    LET top == Top(m)
    IN  IF SubdirsFirst(m.tool)
        THEN IF top.dirs # {} THEN "dirs" ELSE IF top.files # {} THEN "files" ELSE "return"
        ELSE IF top.files # {} THEN "files" ELSE IF top.dirs # {} THEN "dirs" ELSE "return"

Recurse(m, name) ==
    [m EXCEPT !.stack = Append(Replace(@, [Top(m) EXCEPT !.dirs = @ \ {name}]),
                               Frame(Join(Top(m).path, name), Top(m).it.Dirs[name]))]

Past(m, name) == [m EXCEPT !.stack = Replace(@, [Top(m) EXCEPT !.files = @ \ {name}])]

Back(m) == [m EXCEPT !.stack = SubSeq(@, 1, Len(@) - 1)]

\* The steps of a tool whose files need the calling thread only.
Walking(tool) ==
    /\ main.op = "Walk" /\ main.tool = tool /\ main.stack # <<>>

MainCatalogCheck ==
    /\ Walking("CatalogCheck")
    /\ \/ /\ Turn(main) = "files"
          /\ \E name \in Top(main).files :
                /\ units' = Append(units, JustFileExistCheck(Top(main).path, name,
                                                             Top(main).it.Files[name].Digest))
                /\ main' = Past(main, name)
       \/ /\ Turn(main) = "dirs"
          /\ \E name \in Top(main).dirs : main' = Recurse(main, name)
          /\ units' = units
       \/ /\ Turn(main) = "return"
          /\ main' = Back(main)
          /\ units' = units
    /\ UNCHANGED <<disk, ids, pool, hist>>

MainDigestMapper ==
    /\ Walking("DigestMapper")
    /\ \/ /\ Turn(main) = "dirs"
          /\ \E name \in Top(main).dirs : main' = Recurse(main, name)
       \/ /\ Turn(main) = "files"
          /\ \E name \in Top(main).files :
                LET file == Top(main).it.Files[name]
                    entry == [g \in {file.Digest} |-> Join(Top(main).path, name)]
                IN  main' = [Past(main, name) EXCEPT !.mapped = entry @@ @]
       \/ /\ Turn(main) = "return"
          /\ main' = Back(main)
    /\ UNCHANGED <<disk, units, ids, pool, hist>>

MainDigestRecorder ==
    /\ Walking("DigestRecorder")
    /\ \/ /\ Turn(main) = "dirs"
          /\ \E name \in Top(main).dirs : main' = Recurse(main, name)
       \/ /\ Turn(main) = "files"
          /\ \E name \in Top(main).files :
                LET entry == [q \in {Join(Top(main).path, name)} |-> Top(main).it.Files[name].Digest]
                IN  main' = [Past(main, name) EXCEPT !.recorded = entry @@ @]
       \/ /\ Turn(main) = "return"
          /\ main' = Back(main)
    /\ UNCHANGED <<disk, units, ids, pool, hist>>

MainIntegrityCheck ==
    /\ Walking("IntegrityCheck")
    /\ \/ /\ Turn(main) = "dirs"
          /\ \E name \in Top(main).dirs : main' = Recurse(main, name)
       \/ /\ Turn(main) = "files"
          /\ \E name \in Top(main).files :
                LET file == Top(main).it.Files[name]
                    entry == [q \in {Join(Top(main).path, name)} |-> file.Digest]
                IN  main' = IF file.Name # file.Digest
                            THEN [Past(main, name) EXCEPT !.recorded = entry @@ @]
                            ELSE Past(main, name)
       \/ /\ Turn(main) = "return"
          /\ main' = Back(main)
    /\ UNCHANGED <<disk, units, ids, pool, hist>>

\* A failed Add, or a failed call for a subdirectory, ends every call of the
\* tool with the error (fail.On, fail.Around).
MainZipRoot ==
    /\ Walking("ZipRoot")
    /\ \/ /\ Turn(main) = "files"
          /\ \E name \in Top(main).files :
                LET location == ExactLocation(Top(main).it.Files[name].Digest)
                    relative == Rel(HololibLocation, location)
                IN  \E o \in Add(main.sink, location, relative) :
                       main' = IF o.ok THEN [Past(main, name) EXCEPT !.sink = o.sink]
                               ELSE [main EXCEPT !.stack = <<>>, !.err = TRUE]
       \/ /\ Turn(main) = "dirs"
          /\ \E name \in Top(main).dirs : main' = Recurse(main, name)
       \/ /\ Turn(main) = "return"
          /\ main' = Back(main)
    /\ UNCHANGED <<disk, units, ids, pool, hist>>

Tools == {"CatalogCheck", "DigestMapper", "DigestRecorder", "IntegrityCheck", "ZipRoot"}

\* A tree of library names: every file is named by its digest.
LibraryTree ==
    [Name |-> "lib", Dirs |-> <<>>,
     Files |-> [n \in Digests |-> SourceFile(n, n)]]

InitWalk ==
    /\ \E b \in Digests, c \in Digests, lib \in LibraryCases :
          /\ disk = lib @@ SourceDisk(b, c)
          /\ \E tree \in {SourceTree(b, c), LibraryTree} :
                \/ \E tool \in Tools : main = Walker(tool, P(<<"src">>), tree)
                \/ main = ScheduleLifters(P(<<"src">>), tree)
    /\ units = <<>>
    /\ ids = 1
    /\ pool = NoPool
    /\ hist = [old |-> disk, tree |-> Top(main).it]

NextWalk ==
    \/ MainCatalogCheck
    \/ MainDigestMapper
    \/ MainDigestRecorder
    \/ MainIntegrityCheck
    \/ MainZipRoot
    \/ MainScheduler
    \/ RunJustFileExistCheck

SpecWalk == InitWalk /\ [][NextWalk]_vars

\* How many Files of a tree have the digest.
RECURSIVE FilesWith(_, _)
FilesWith(it, g) ==
    LET RECURSIVE Sum(_)
        Sum(names) == IF names = {} THEN 0
                      ELSE LET n == CHOOSE x \in names : TRUE
                           IN  FilesWith(it.Dirs[n], g) + Sum(names \ {n})
    IN  Cardinality({n \in DOMAIN it.Files : it.Files[n].Digest = g}) + Sum(DOMAIN it.Dirs)

Adds(g) == {k \in DOMAIN main.sink : main.sink[k].absolute = ExactLocation(g)}

Zipping == main.op = "Walk" /\ main.tool = "ZipRoot"

Zipped == Zipping /\ main.stack = <<>> /\ ~main.err

\* C11 as stated: a completed ZipRoot has called Add exactly once for every
\* digest of the tree, however many Files share it.
C11_AsClaimed ==
    Zipped =>
        \A g \in Digests :
            Cardinality(Adds(g)) = IF FilesWith(hist.tree, g) > 0 THEN 1 ELSE 0

\* C11 as the code has it: ZipRoot calls Add once per File of the tree, with
\* absolute = library.ExactLocation(digest) and relative = that location
\* relative to the library base; Files that share a digest lead to as many
\* Adds for the one library object.  (While the walk runs, or once an Add has
\* failed, there are at most that many.)
C11_AddPerFile ==
    Zipping =>
        /\ \A g \in Digests :
              /\ Cardinality(Adds(g)) <= FilesWith(hist.tree, g)
              /\ Zipped => Cardinality(Adds(g)) = FilesWith(hist.tree, g)
        /\ \A k \in DOMAIN main.sink :
              \E g \in Digests :
                  /\ main.sink[k].absolute = P(<<"hololib", "shard", g>>)
                  /\ main.sink[k].relative = P(<<"shard", g>>)

\* src/{a, b, s/{c}} with one body under all three names: three Adds for d1.
C11_Witness ==
    /\ Zipped
    /\ FilesWith(hist.tree, "d1") = 3
    /\ Len(main.sink) = 3
    /\ \A k \in 1..3 : main.sink[k].absolute = ExactLocation("d1")

(***************************************************************************)
(* SpecMother: the restore of SpecRestore, twice, for target trees with    *)
(* nested and sibling directories, into a destination that has none, some  *)
(* or all of them, or a file in the place of one.                          *)
(***************************************************************************)
MotherFile(name) == [TargetFile(<<0>>) EXCEPT !.Name = name]

Branch(name, files, dirs) ==
    [Name |-> name, Files |-> [n \in files |-> MotherFile(n)], Dirs |-> dirs]

MotherTrees ==
    LET x == Branch("x", {}, <<>>)
        c == Branch("c", {}, <<>>)
        s == Branch("s", {"b"}, [n \in {"x"} |-> x])
    IN  {Branch("out", {}, [n \in {"s", "c"} |-> IF n = "s" THEN s ELSE c]),
         Branch("out", {"a"}, [n \in {"c"} |-> c])}

MotherDisks ==
    LET s == Join(OutDir, "s")
        c == Join(OutDir, "c")
    IN  {<<>>,
         [p \in {s} |-> DirEntry(Now)],
         [p \in {s, Join(s, "x"), c} |-> DirEntry(Now)],
         [p \in {c} |-> FileEntry(OldData, "0644", Now)],
         [p \in {s, Join(OutDir, "x")} |->
            IF p = s THEN DirEntry(Now) ELSE FileEntry(OldData, "0644", Now)]}

InitMother ==
    /\ \E tree \in MotherTrees, there \in MotherDisks :
          /\ disk = there @@ BaseDisk
          /\ main = [op |-> "Restore", pc |-> "branches", pass |-> 1,
                     root |-> [Path |-> OutDir, Tree |-> tree, Rewrite |-> Patch],
                     calls |-> MakeBranches(OutDir, tree),
                     current |-> <<>>, stats |-> 0, mark |-> 0]
    /\ units = <<>>
    /\ ids = 1
    /\ pool = NoPool
    /\ hist = [old |-> disk]

NextMother == NextRestore

SpecMother == InitMother /\ [][NextMother]_vars

\* MakeBranches has just returned without error.
Branched == main.op = "Restore" /\ main.pc = "schedule"

C12_Branches ==
    Branched =>
        LET dirs == AllDirs(main.root.Path, main.root.Tree)
        IN  \A k \in DOMAIN dirs :
                IsDir(disk, dirs[k].path) /\ disk[dirs[k].path].mtime = motherTime

C12_Dropped ==
    \A k \in DOMAIN units :
        (units[k].kind = "DropFile" /\ units[k].pc # "done" /\ units'[k].pc = "done") =>
            /\ IsFile(disk', units[k].sinkname)
            /\ disk'[units[k].sinkname].mode = units[k].details.Mode
            /\ disk'[units[k].sinkname].mtime = motherTime

\* C12: when MakeBranches returns without error every directory of the tree,
\* the root path included, exists with mtime = motherTime; and at the step
\* that completes a DropFile unit without error the file at its sinkname has
\* the File's mode and mtime = motherTime.
C12_MotherTime == [](C12_Branches) /\ [][C12_Dropped]_vars

\* The second MakeBranches of a restore of out/{s/{b, x}, c} into a
\* destination that had neither s nor c: the first made them, the DropFile of
\* s/b has completed, and every directory is stamped again.
C12_Witness ==
    /\ Branched /\ main.pass = 2
    /\ ~Exists(hist.old, Join(OutDir, "s"))
    /\ IsDir(disk, Join(Join(OutDir, "s"), "x"))
    /\ \E k \in DOMAIN units : units[k].kind = "DropFile" /\ units[k].pc = "done"

(***************************************************************************)
(* SpecLock: TryRename against a destination that is locked for the first  *)
(* `lock` milliseconds after the call: a rename onto it fails before that  *)
(* and succeeds from then on.  Time passes in the sleeps; the rename to    *)
(* the intermediate path may go either way.                                *)
(***************************************************************************)
MaxLock == 2050

Last(log) == log[Len(log)]

\* What the lock lets a step of TryRename come to.
Unlocked(o, lock, target) ==
    LET e == Last(o.rt.log)
    IN  e.to = target => (e.ok <=> e.ms >= lock)

InitLock ==
    /\ \E d \in {t \in RetryTargets : ~IsDir(t, RetryTarget)}, lock \in 0..MaxLock :
          /\ disk = Put(d, RetrySource, FileEntry(NewData, CreateMode, Now))
          /\ main = [op |-> "TryLocked", lock |-> lock,
                     rt |-> TryBegin("Rename", RetrySource, RetryTarget)]
    /\ units = <<>>
    /\ ids = 1
    /\ pool = NoPool
    /\ hist = NoHist

MainTryLocked ==
    /\ main.op = "TryLocked"
    /\ \E o \in TryStep(main.rt, disk) :
          /\ Unlocked(o, main.lock, RetryTarget)
          /\ main' = [main EXCEPT !.rt = o.rt]
          /\ disk' = o.disk
    /\ UNCHANGED <<units, ids, pool, hist>>

NextLock == MainTryLocked

SpecLock == InitLock /\ [][NextLock]_vars

LockReturned == main.op = "TryLocked" /\ main.rt.pc = "ret"

\* The intermediate-path fallback was invoked: the sixth call is the rename
\* of the source to <source>.<pid>_<hex>.
FellBack(c) == Len(c) >= 6 /\ c[6].from = RetrySource /\ c[6].to = Intermediate(RetrySource)

\* C13 as stated: a 150 ms lock lets the second attempt succeed; a lock over
\* the whole primary window brings the fallback.
C13_AsClaimed ==
    LockReturned =>
        LET c == Calls(main.rt.log)
        IN  /\ main.lock = 150 => (main.rt.ret.nil /\ Len(c) = 2)
            /\ main.lock > 1000 => FellBack(c)

\* C13 as the code has it: the primary attempts are made 0, 100, 300, 600
\* and 1000 ms after the call (the sleeps add up), and TryRename returns nil
\* at the first of them that is not before the end of the lock: a 150 ms lock
\* lets the third attempt succeed, at 300 ms, the second being made at 100 ms;
\* a lock that outlasts all five brings the rename to the intermediate path
\* and the second loop.
C13_LockedRename ==
    LockReturned =>
        LET c == Calls(main.rt.log)
            due == {k \in 1..5 : 50 * k * (k - 1) >= main.lock}
        IN  /\ \A k \in 1..Len(c) : k <= 5 => c[k].ms = 50 * k * (k - 1)
            /\ due # {} =>
                  /\ main.rt.ret.nil
                  /\ Len(c) = CHOOSE k \in due : \A j \in due : k <= j
            /\ main.lock = 150 => Len(c) = 3
            /\ due = {} => FellBack(c) /\ Len(c) >= 7

\* Locked for 150 ms: failed at 0 and at 100 ms, renamed at 300 ms.
C13_Witness ==
    /\ LockReturned /\ main.lock = 150
    /\ main.rt.ret.nil
    /\ LET c == Calls(main.rt.log)
       IN  Len(c) = 3 /\ ~c[2].ok /\ c[2].ms = 100 /\ c[3].ok /\ c[3].ms = 300
    /\ IsFile(disk, RetryTarget) /\ disk[RetryTarget].data = NewData

(***************************************************************************)
(* SpecDecide: one RestoreDirectory unit for the directory out/, for every *)
(* small listing, target Dir and `current`, with the pool running it and   *)
(* the units it schedules in every interleaving.                           *)
(***************************************************************************)
\* A staging file some earlier run has left behind.
Leftover == PartName(Join(OutDir, "a"), 7)

\* What else out/ may hold: what OtherCases has under "s", or the leftover.
ElseCases == OtherCases \cup {[p \in {Leftover} |-> FileEntry(<<"a">>, CreateMode, Now)]}

InitDecide ==
    /\ \E tree \in TargetTrees(<<0>>), a \in FileCases(<<0>>), s \in ElseCases,
          current \in CurrentCases :
          /\ disk = a @@ s @@ BaseDisk
          /\ units = <<RestoreDirectory(OutDir, tree, current, Patch)>>
    /\ main = [op |-> "Wait", stats |-> 0]
    /\ ids = 1
    /\ pool = NoPool
    /\ hist = [old |-> disk]

NextDecide == RunRestoreDirectory \/ RunDropFile \/ RunRemoveFile \/ RunRemoveDirectory

SpecDecide == InitDecide /\ [][NextDecide]_vars

\* What the unit has handed to anywork.Backlog, as (operation, path).
Ops == {[op |-> units[k].kind, path |-> units[k].sinkname] : k \in 2..Len(units)}

\* The File of the target Dir a path of the directory stands for.
FileAt(u, q) == u.it.Files[Leaf(q)]

\* A listed entry that is the target's file, golden and of its fingerprint.
Matching(u, q) ==
    /\ IsFile(hist.old, q)
    /\ q \notin DOMAIN u.current \/ u.current[q] = FileAt(u, q).Digest
    /\ Len(hist.old[q].data) = FileAt(u, q).Size
    /\ hist.old[q].mode = FileAt(u, q).Mode
    /\ hist.old[q].mtime = motherTime

\* The operations the decision rules call for, given the listing.
Decided(u) ==
    LET listed == Children(hist.old, u.path)
        wanted == {Join(u.path, n) : n \in DOMAIN u.it.Files}
        kept == {Join(u.path, n) : n \in DOMAIN u.it.Dirs}
    IN  {[op |-> "DropFile", path |-> q] : q \in {w \in wanted : w \notin listed \/ ~Matching(u, w)}}
        \cup {[op |-> "RemoveFile", path |-> q] : q \in {e \in listed : ~IsDir(hist.old, e) /\ e \notin wanted}}
        \cup {[op |-> "RemoveDirectory", path |-> q] : q \in {e \in listed : IsDir(hist.old, e) /\ e \notin kept}}

\* C14: a RestoreDirectory unit schedules a DropFile exactly for each target
\* file that is not listed or is listed and not matching (golden and of the
\* File's stat fingerprint), a RemoveFile exactly for each listed
\* non-directory entry that is no target file, a RemoveDirectory exactly for
\* each listed directory that is no target subdirectory, each once and with
\* the File's digest, details and the Root's rewrite, and nothing else; and
\* the dirty count is the number of operations scheduled, at every step.
C14_Decision ==
    (main.op = "Wait" /\ units[1].kind = "RestoreDirectory") =>
        LET u == units[1]
        IN  /\ Ops \subseteq Decided(u)
            /\ u.pc = "done" => Ops = Decided(u)
            /\ Cardinality(Ops) = Len(units) - 1
            /\ main.stats = Len(units) - 1
            /\ \A k \in 2..Len(units) :
                  units[k].kind = "DropFile" =>
                      /\ units[k].details = FileAt(u, units[k].sinkname)
                      /\ units[k].digest = units[k].details.Digest
                      /\ units[k].rewrite = u.rewrite

\* out/ held a look-alike a recorded under another digest and a leftover
\* staging file: one DropFile, one RemoveFile, dirty count 2.
C14_Witness ==
    /\ main.op = "Wait" /\ units[1].kind = "RestoreDirectory" /\ units[1].pc = "done"
    /\ Join(OutDir, "a") \in DOMAIN units[1].current
    /\ units[1].current[Join(OutDir, "a")] = "d0"
    /\ IsFile(hist.old, Join(OutDir, "a")) /\ hist.old[Join(OutDir, "a")].mtime = motherTime
    /\ Ops = {[op |-> "DropFile", path |-> Join(OutDir, "a")],
              [op |-> "RemoveFile", path |-> Leftover]}
    /\ main.stats = 2

\* C15: the operations one RestoreDirectory unit schedules target pairwise
\* distinct paths.
C15_DistinctPaths ==
    (main.op = "Wait" /\ units[1].kind = "RestoreDirectory") =>
        \A j, k \in 2..Len(units) : j # k => units[j].sinkname # units[k].sinkname

Loaders(kind) == {k \in DOMAIN units : units[k].kind = kind}

AllFinished(kind) == \A k \in Loaders(kind) : Finished(units[k])

\* The positions at which two sequences of one length differ.
Changed(old, new) == {at \in DOMAIN old : new[at] # old[at]}

\* Unit k has just taken its last step without a panic.
Completes(k) == units[k].pc # "done" /\ units'[k].pc = "done"

C16_Barriers ==
    main.op = "Load" =>
        /\ Loaders("DigestLoader") # {} => AllFinished("CatalogLoader")
        /\ main.pc = "roots" => AllFinished("CatalogLoader")
        /\ main.ret.returned => AllFinished("CatalogLoader") /\ AllFinished("DigestLoader")
        /\ \A j, k \in DOMAIN units :
              (j # k /\ units[j].kind = units[k].kind) => units[j].n # units[k].n
        /\ \A at \in DOMAIN main.roots :
              ~main.roots[at].nil =>
                  \E k \in Loaders("CatalogLoader") : units[k].n = at /\ units[k].pc = "done"
        /\ \A at \in DOMAIN main.slots :
              ~main.slots[at].nil =>
                  \E k \in Loaders("DigestLoader") : units[k].n = at /\ units[k].pc = "done"

C16_Writers ==
    main.op = "Load" =>
        /\ main'.roots # main.roots =>
              /\ main.pc \in {"catalogs", "sync"}
              /\ \E k \in Loaders("CatalogLoader") :
                    /\ Completes(k)
                    /\ Changed(main.roots, main'.roots) = {units[k].n}
                    /\ main.roots[units[k].n].nil
        /\ (main.pc = "roots" /\ main'.slots # main.slots) =>
              /\ AllFinished("CatalogLoader")
              /\ \E k \in Loaders("DigestLoader") :
                    /\ Completes(k)
                    /\ Changed(main.slots, main'.slots) = {units[k].n}
                    /\ main.slots[units[k].n].nil
        /\ main.pc # "roots" => (main'.slots # main.slots => main.pc = "sync" /\ units' = units)
        /\ main'.ret # main.ret =>
              /\ units' = units
              /\ AllFinished("CatalogLoader") /\ AllFinished("DigestLoader")
              /\ main'.slots = main.slots /\ main'.roots = main.roots

\* C16: no DigestLoader is submitted before every CatalogLoader has ended,
\* and the caller reads the slots and builds the result only after every
\* DigestLoader has ended, in a step of its own; roots[i] and slots[i] are
\* written once at most, by the unit made for position i, before the barrier
\* that follows.
C16_LoadOrdering == [](C16_Barriers) /\ [][C16_Writers]_vars

\* Two catalogs, both loaded and mapped: d1 is in both.
C16_Witness ==
    /\ main.op = "Load" /\ main.ret.returned /\ pool.failures = 0
    /\ Len(main.catalogs) = 2
    /\ "d1" \in DOMAIN main.ret.index
    /\ main.ret.index["d1"] = {main.catalogs[1], main.catalogs[2]}

\* The Treetop that is walking.
Tool == IF main.op = "Lift" THEN "ScheduleLifters" ELSE main.tool

\* The running call of the tool goes on to a file of its Dir ...
ActsOnFile ==
    /\ main.stack # <<>> /\ Len(main'.stack) = Len(main.stack)
    /\ Top(main').files # Top(main).files

\* ... or calls itself for a subdirectory of its Dir.
EntersSubdir == main.stack # <<>> /\ Len(main'.stack) > Len(main.stack)

\* C17 as stated: no walker acts on a file of a Dir while a subdirectory of
\* that Dir is still to be walked.
C17_AsClaimed == [][ActsOnFile => Top(main).dirs = {}]_vars

C17_Order ==
    IF Tool \in {"CatalogCheck", "ZipRoot"}
    THEN EntersSubdir => Top(main).files = {}
    ELSE ActsOnFile => Top(main).dirs = {}

\* C17 as the code has it: DigestMapper, DigestRecorder, IntegrityCheck and
\* ScheduleLifters recurse into all subdirectories of a Dir before they act
\* on any of its files; CatalogCheck and ZipRoot do the opposite: they act on
\* (schedule the check of, add) all files of a Dir before they recurse into
\* any of its subdirectories.
C17_WalkOrder == [][C17_Order]_vars

\* CatalogCheck has scheduled the checks of a and b of src/ and has yet to
\* go into s.
C17_Witness ==
    /\ main.op = "Walk" /\ main.tool = "CatalogCheck"
    /\ Len(main.stack) = 1
    /\ Top(main).files = {} /\ Top(main).dirs = {"s"}
    /\ Len(units) = 2
    /\ \A k \in 1..2 : units[k].kind = "JustFileExistCheck" /\ Parent(units[k].sourcename) = P(<<"src">>)

(***************************************************************************)
(* SpecHasher: Hasher units for the files src/a and src/b, plain or        *)
(* gzipped, with every `known` index, and the RemoveFile units they hand   *)
(* to the pool.  A unit's log holds what it has done, in order.            *)
(***************************************************************************)
\* sha256 of a body, as the digest that names it.
Sum(body) == IF \E g \in Digests : BodyOf(g) = body
             THEN CHOOSE g \in Digests : BodyOf(g) = body
             ELSE "d0"

Hasher(known, fullpath, details) ==
    [BlankUnit EXCEPT !.kind = "Hasher", !.pc = "known", !.known = known,
                      !.sourcename = fullpath, !.details = details]

Defer(u, call) == [u EXCEPT !.deferred = <<call>> \o @]

Logged(u, event) == [u EXCEPT !.log = Append(@, event)]

HasherStep(u, d, i) ==
    CASE u.pc = "known" ->
            {Out(At(IF u.details.Name \in u.known THEN u ELSE Defer(u, "Backlog"), "open"), d, i)}
      [] u.pc = "open" ->
            {Out(PanicDeferred(u), d, i)} \cup
            IF IsFile(d, u.sourcename)
            THEN {Out(At(Defer(Logged([u EXCEPT !.body = d[u.sourcename].data], "open"), "Close"),
                         "gzip"), d, i)}
            ELSE {}
      [] u.pc = "gzip" ->
            {Out(At(u, "seek"), d, i)} \cup
            IF IsGzip(u.body) THEN {Out(At([u EXCEPT !.body = Gunzip(@)], "copy"), d, i)} ELSE {}
      [] u.pc = "seek" ->
            {Out(PanicDeferred(u), d, i), Out(At(u, "copy"), d, i)}
      [] u.pc = "copy" ->
            {Out(PanicDeferred(u), d, i), Out(At(u, "digest"), d, i)}
      [] u.pc = "digest" ->
            {Out(At(Logged([u EXCEPT !.details.Digest = Sum(u.body)], "digest"), "defer"), d, i)}
      [] u.pc = "defer" /\ u.deferred = <<>> ->
            {Out(At(u, IF u.panicked THEN "failed" ELSE "done"), d, i)}
      [] u.pc = "defer" /\ u.deferred # <<>> ->
            LET rest == [u EXCEPT !.deferred = Tail(@)]
            IN  IF Head(u.deferred) = "Close"
                THEN {Out(Logged(rest, "close"), d, i)}
                ELSE {[u |-> Logged(rest, "backlog"), disk |-> d, ids |-> i,
                       spawn |-> <<RemoveFile(u.sourcename)>>, dirty |-> 0]}
      [] OTHER -> {}

RunHasher ==
    \E k \in DOMAIN units :
        /\ units[k].kind = "Hasher"
        /\ \E o \in HasherStep(units[k], disk, ids) : Run(k, o)

HasherSources ==
    LET src == P(<<"src">>)
        dir == [p \in {src} |-> DirEntry(motherTime)]
        a == Join(src, "a")
        b == Join(src, "b")
    IN  { dir @@ [p \in {a} |-> FileEntry(data, "0644", Now)]
              @@ [p \in {b} \cap there |-> FileEntry(BodyOf("d2"), "0644", Now)] :
          data \in {BodyOf("d1"), Gzip(BodyOf("d1"))}, there \in SUBSET {b} }

InitHasher ==
    /\ disk \in HasherSources
    /\ \E known \in SUBSET {"a", "b"} :
          units = [k \in 1..2 |->
                     Hasher(known, Join(P(<<"src">>), SortedNames[k]),
                            [NoDetails EXCEPT !.Name = SortedNames[k]])]
    /\ main = [op |-> "Wait", stats |-> 0]
    /\ ids = 1
    /\ pool = NoPool
    /\ hist = [old |-> disk]

NextHasher == RunHasher \/ RunRemoveFile

SpecHasher == InitHasher /\ [][NextHasher]_vars

Hashers == {k \in DOMAIN units : units[k].kind = "Hasher"}

RemovalScheduled(fullpath) ==
    \E k \in DOMAIN units : units[k].kind = "RemoveFile" /\ units[k].sinkname = fullpath

\* C18: a Hasher unit schedules RemoveFile for its source file if and only if
\* the file's name is no key of the known index, and only after the digest
\* has been written and the source closed - never when opening or reading
\* the file failed.
C18_RemovalAfterHashing ==
    \A k \in Hashers :
        LET u == units[k]
        IN  /\ RemovalScheduled(u.sourcename) =>
                  /\ u.details.Name \notin u.known
                  /\ ~u.panicked
                  /\ u.log = <<"open", "digest", "close", "backlog">>
            /\ (u.pc = "done" /\ u.details.Name \notin u.known) => RemovalScheduled(u.sourcename)

(***************************************************************************)
(* SpecRetryFair: SpecRetry with a thread that keeps running.              *)
(***************************************************************************)
SpecRetryFair == SpecRetry /\ WF_vars(MainTry)

Renames == main.op = "Try" /\ main.rt.fn = "Rename"

\* The file TryRename was given is at the path, whole.
FileIsAt(p) == IsFile(disk, p) /\ disk[p] = FileEntry(NewData, CreateMode, Now)

C19_FileSomewhere ==
    Renames =>
        LET r == main.rt
            mid == Intermediate(RetrySource)
        IN  /\ Len(Calls(r.log)) <= 11
            /\ (r.pc = "ret" /\ r.ret.nil) =>
                  FileIsAt(r.target) /\ ~Exists(disk, RetrySource) /\ ~Exists(disk, mid)
            /\ (r.pc = "ret" /\ ~r.ret.nil) =>
                  /\ r.ret.origin \in {"source", "target"}
                  /\ r.ret.origin = "source" => FileIsAt(RetrySource) /\ ~Exists(disk, mid)
                  /\ r.ret.origin = "target" => FileIsAt(mid) /\ ~Exists(disk, RetrySource)

\* What is at the target path changes only in the step that returns nil.
C19_TargetKept ==
    Renames =>
        ([q \in Tree(disk', RetryTarget) |-> disk'[q]] # [q \in Tree(disk, RetryTarget) |-> disk[q]]
            => main'.rt.pc = "ret" /\ main'.rt.ret.nil)

\* C19: TryRename returns after at most 11 rename calls; when it returns nil
\* the file is at the target path and at neither the source nor the
\* intermediate path; when it returns an error the file is at the source
\* path (origin "source") or at the intermediate path (origin "target"), at
\* one of them only, and the target path is as it was.
C19_NeverLost ==
    /\ [](C19_FileSomewhere)
    /\ [][C19_TargetKept]_vars
    /\ <>(main.rt.pc = "ret")

\* Eleven calls, the sixth a success: the error names the target, the file
\* is at the intermediate path and the old file is still at the target path.
C19_Witness ==
    /\ Renames /\ main.rt.pc = "ret" /\ ~main.rt.ret.nil
    /\ main.rt.ret.origin = "target"
    /\ Len(Calls(main.rt.log)) = 11
    /\ FileIsAt(Intermediate(RetrySource))
    /\ IsFile(disk, RetryTarget) /\ disk[RetryTarget].data = OldData

\* C20: when a DropFile unit has failed, at whatever step, its sinkname is as
\* it was before the unit started: absent, or the old file with its content,
\* mode and mtime.
C20_FailedLeavesTarget ==
    \A k \in DOMAIN units :
        (units[k].kind = "DropFile" /\ units[k].pc = "failed") =>
            IF Exists(hist.old, units[k].sinkname)
            THEN /\ Exists(disk, units[k].sinkname)
                 /\ disk[units[k].sinkname] = hist.old[units[k].sinkname]
            ELSE ~Exists(disk, units[k].sinkname)

=============================================================================
